---- MODULE Spec2Model ----
(***************************************************************************)
(* Video task lifecycle of the photobooth backend.                         *)
(*                                                                         *)
(*   - the Gallery sheet and its doPost actions (apps-script.gs),          *)
(*   - the tick endpoint that polls the provider and starts queued rows,   *)
(*   - the direct generation-start endpoint (api/video/generate.ts),       *)
(*   - the provider's task table and the Drive folder of stored files.     *)
(*                                                                         *)
(* Cells of the sheet that hold "" are modelled by None; Drive file ids,   *)
(* provider task ids and asset urls are positive numbers.                  *)
(***************************************************************************)
EXTENDS Naturals, Sequences, FiniteSets

VARIABLES
  rows,      \* the Gallery sheet: sequence of rows in append order
  drive,     \* Drive: sequence of stored files, file id = index
  now,       \* wall clock read by `new Date()`
  tasks,     \* provider task table, task id = index
  tick,      \* tick endpoint invocations
  triggers,  \* finalizeVideoUpload requests sent by a tick, not yet running
  fin,       \* finalizeVideoUpload executions
  direct,    \* direct generation-start requests
  reqs,      \* updateVideoStatus executions of the lock-level specification
  lock,      \* holder of the script lock (LockService.getScriptLock)
  rows0      \* history: the sheet the lock-level specification started from

vars == <<rows, drive, now, tasks, tick, triggers, fin, direct, reqs, lock, rows0>>

\* ------------------------------------------------------------------ bounds
MaxRows == 1
MaxTasks == 2
NumTicks == 2
NumFin == 2
NumDirect == 1
NumReqs == 3
MaxFinals == 2
CapRows == 4
CapTasks == 4
FaultRows == 2
NumLk == 2
NumCalls == 2
MaxNow == 2
MaxDrive == 2
NumEffects == 3
MaxPreloads == 4

\* --------------------------------------------------------------- constants
None == 0
MAX_CONCURRENT == 3
FULL_SYNC_LIMIT == 50
GAS_RETRIES == 2
DIRECT_RETRIES == 3

\* Model names are sequences of characters, so that startsWith is computed.
VIDEO_PREFIX == <<"s", "e", "e", "d", "a", "n", "c", "e", "-">>

\* 'seedance-1-0-pro-fast-251015'
DefaultModel ==
  VIDEO_PREFIX \o <<"1", "-", "0", "-", "p", "r", "o", "-", "f", "a", "s", "t",
                    "-", "2", "5", "1", "0", "1", "5">>

Statuses == {"idle", "queued", "processing", "uploading", "done", "failed"}

\* ------------------------------------------------------------ sheet access
\* 1-based index of the first row whose id cell equals photoId, 0 if none
\* (the `for (let i = 1; ...) if (values[i][idIndex] === photoId)` scans).
FindRow(rs, photoId) ==
  IF \E i \in 1..Len(rs) : rs[i].id = photoId
  THEN CHOOSE i \in 1..Len(rs) :
         /\ rs[i].id = photoId
         /\ \A j \in 1..(i - 1) : rs[j].id # photoId
  ELSE 0

Response(ok, error, message, current) ==
  [ok |-> ok, error |-> error, message |-> message, current |-> current]

\* Mutants of updateVideoStatus: no requireStatus check; updatedAt stamped
\* before the check; the task id not written.
UpdateVideoStatusNoCas(rs, data, nowIso) ==
  LET i == FindRow(rs, data.photoId) IN
  IF i = 0
  THEN [rows |-> rs, resp |-> Response(FALSE, "Photo ID not found", "", "")]
  ELSE [rows |-> [rs EXCEPT ![i] =
                    [@ EXCEPT
                       !.videoStatus = IF data.status # "" THEN data.status ELSE @,
                       !.videoTaskId = IF data.taskId # None THEN data.taskId ELSE @,
                       !.providerUrl = IF data.providerUrl # None
                                       THEN data.providerUrl ELSE @,
                       !.updatedAt = nowIso]],
        resp |-> Response(TRUE, "", "", "")]

UpdateVideoStatusStampsFirst(rs, data, nowIso) ==
  LET i == FindRow(rs, data.photoId) IN
  IF i = 0
  THEN [rows |-> rs, resp |-> Response(FALSE, "Photo ID not found", "", "")]
  ELSE IF data.requireStatus # "" /\ rs[i].videoStatus # data.requireStatus
  THEN [rows |-> [rs EXCEPT ![i] = [@ EXCEPT !.updatedAt = nowIso]],
        resp |-> Response(FALSE, "Status mismatch", "", rs[i].videoStatus)]
  ELSE [rows |-> [rs EXCEPT ![i] =
                    [@ EXCEPT
                       !.videoStatus = IF data.status # "" THEN data.status ELSE @,
                       !.videoTaskId = IF data.taskId # None THEN data.taskId ELSE @,
                       !.providerUrl = IF data.providerUrl # None
                                       THEN data.providerUrl ELSE @,
                       !.updatedAt = nowIso]],
        resp |-> Response(TRUE, "", "", "")]

UpdateVideoStatusDropsTaskId(rs, data, nowIso) ==
  LET i == FindRow(rs, data.photoId) IN
  IF i = 0
  THEN [rows |-> rs, resp |-> Response(FALSE, "Photo ID not found", "", "")]
  ELSE IF data.requireStatus # "" /\ rs[i].videoStatus # data.requireStatus
  THEN [rows |-> rs,
        resp |-> Response(FALSE, "Status mismatch", "", rs[i].videoStatus)]
  ELSE [rows |-> [rs EXCEPT ![i] =
                    [@ EXCEPT
                       !.videoStatus = IF data.status # "" THEN data.status ELSE @,
                       !.providerUrl = IF data.providerUrl # None
                                       THEN data.providerUrl ELSE @,
                       !.updatedAt = nowIso]],
        resp |-> Response(TRUE, "", "", "")]

\* doPost action 'updateVideoStatus': the callback run under the lock.
UpdateVideoStatus(rs, data, nowIso) ==
  LET i == FindRow(rs, data.photoId) IN
  IF i = 0
  THEN [rows |-> rs, resp |-> Response(FALSE, "Photo ID not found", "", "")]
  ELSE IF data.requireStatus # "" /\ rs[i].videoStatus # data.requireStatus
  THEN [rows |-> rs,
        resp |-> Response(FALSE, "Status mismatch", "", rs[i].videoStatus)]
  ELSE [rows |-> [rs EXCEPT ![i] =
                    [@ EXCEPT
                       !.videoStatus = IF data.status # "" THEN data.status ELSE @,
                       !.videoTaskId = IF data.taskId # None THEN data.taskId ELSE @,
                       !.providerUrl = IF data.providerUrl # None
                                       THEN data.providerUrl ELSE @,
                       !.updatedAt = nowIso]],
        resp |-> Response(TRUE, "", "", "")]

StatusUpdate(photoId, status, taskId, providerUrl, requireStatus) ==
  [photoId |-> photoId, status |-> status, taskId |-> taskId,
   providerUrl |-> providerUrl, requireStatus |-> requireStatus]

\* doPost action 'queueVideo': the callback run under the lock.  A parameter
\* is stored when the body carries it (a missing one is "" or <<>>).
QueueVideo(rs, data, nowIso) ==
  LET i == FindRow(rs, data.photoId) IN
  IF i = 0
  THEN [rows |-> rs, resp |-> Response(FALSE, "Photo ID not found", "", "")]
  ELSE [rows |-> [rs EXCEPT ![i] =
                    [@ EXCEPT
                       !.videoStatus = "queued",
                       !.videoPrompt = IF data.prompt # "" THEN data.prompt ELSE @,
                       !.videoResolution = IF data.resolution # ""
                                           THEN data.resolution ELSE @,
                       !.videoModel = IF data.model # <<>> THEN data.model ELSE @,
                       !.updatedAt = nowIso]],
        resp |-> Response(TRUE, "", "", "")]

\* Options of queueVideoTask and the stored settings: nothing given.
NoOptions == [prompt |-> "", resolution |-> "", model |-> <<>>]

\* queueVideoTask(photoId, options): the request body, each missing option
\* taken from the stored settings, then from the defaults.
QueueVideoTask(photoId, options, settings) ==
  [photoId |-> photoId,
   prompt |-> IF options.prompt # "" THEN options.prompt ELSE settings.prompt,
   resolution |-> IF options.resolution # "" THEN options.resolution
                  ELSE IF settings.resolution # "" THEN settings.resolution
                  ELSE "480p",
   model |-> IF options.model # <<>> THEN options.model
             ELSE IF settings.model # <<>> THEN settings.model
             ELSE DefaultModel]

\* doPost action 'uploadGenerated' / 'uploadGeneratedVideo': the appended row.
NewRow(fileId, isVideo, nowIso) ==
  [id |-> fileId,
   type |-> IF isVideo THEN "video" ELSE "image",
   videoStatus |-> IF isVideo THEN "done" ELSE "idle",
   videoTaskId |-> None,
   providerUrl |-> None,
   videoFileId |-> IF isVideo THEN fileId ELSE None,
   videoPrompt |-> "",
   videoResolution |-> "",
   videoModel |-> <<>>,
   createdAt |-> nowIso,
   updatedAt |-> nowIso]

\* Mutant of the preCheck: only the status is looked at, not the file id.
FinalizePreCheckStatusOnly(rs, photoId) ==
  LET i == FindRow(rs, photoId) IN
  IF i = 0 THEN [skip |-> TRUE, reason |-> "Photo ID not found"]
  ELSE IF rs[i].videoStatus = "done"
  THEN [skip |-> TRUE, reason |-> "Already uploaded"]
  ELSE [skip |-> FALSE, reason |-> ""]

\* doPost action 'finalizeVideoUpload': the preCheck callback.
FinalizePreCheck(rs, photoId) ==
  LET i == FindRow(rs, photoId) IN
  IF i = 0 THEN [skip |-> TRUE, reason |-> "Photo ID not found"]
  ELSE IF rs[i].videoStatus = "done" \/ rs[i].videoFileId # None
  THEN [skip |-> TRUE, reason |-> "Already uploaded"]
  ELSE [skip |-> FALSE, reason |-> ""]

\* doPost action 'finalizeVideoUpload': the closing callback that marks done.
FinalizeMarkDone(rs, photoId, fileId, nowIso) ==
  LET i == FindRow(rs, photoId) IN
  IF i = 0
  THEN [rows |-> rs, resp |-> Response(FALSE, "Photo ID not found", "", "")]
  ELSE [rows |-> [rs EXCEPT ![i] =
                    [@ EXCEPT !.videoStatus = "done",
                              !.videoFileId = fileId,
                              !.updatedAt = nowIso]],
        resp |-> Response(TRUE, "", "", "")]

\* Mutant of the catch block: the row is put back in the queue.
FinalizeMarkFailedRequeues(rs, photoId) ==
  LET i == FindRow(rs, photoId) IN
  IF i = 0 THEN rs
  ELSE [rs EXCEPT ![i] = [@ EXCEPT !.videoStatus = "queued"]]

\* doPost action 'finalizeVideoUpload': the callback of the catch block.
FinalizeMarkFailed(rs, photoId) ==
  LET i == FindRow(rs, photoId) IN
  IF i = 0 THEN rs
  ELSE [rs EXCEPT ![i] = [@ EXCEPT !.videoStatus = "failed"]]


\* ------------------------------------------------------------ gallery read
Min(a, b) == IF a < b THEN a ELSE b

Reverse(s) == [i \in 1..Len(s) |-> s[Len(s) + 1 - i]]

\* doGet action 'gallery' with since = 0 (full sync): rows from the last to the
\* first, at most FULL_SYNC_LIMIT of them.
GalleryFull(rs) ==
  SubSeq(Reverse(rs), 1, Min(Len(rs), FULL_SYNC_LIMIT))

\* The timestamp of a row in a gallery read: updatedAt, else createdAt, else 0.
RowTs(row) ==
  IF row.updatedAt # 0 THEN row.updatedAt
  ELSE IF row.createdAt # 0 THEN row.createdAt
  ELSE 0

RECURSIVE MaxTimestamp(_, _)
MaxTimestamp(rs, since) ==
  IF rs = <<>> THEN since
  ELSE LET rest == MaxTimestamp(Tail(rs), since) IN
       IF RowTs(Head(rs)) > rest THEN RowTs(Head(rs)) ELSE rest

\* doGet action 'gallery': a sheet without rows is answered at once with
\* cursor 0; else the rows from the last to the first, the newest
\* FULL_SYNC_LIMIT of them when since = 0 and those with a timestamp after
\* since otherwise, and the largest timestamp met, at least since.
Gallery(rs, since) ==
  IF Len(rs) = 0 THEN [items |-> <<>>, nextCursor |-> 0]
  ELSE [items |-> IF since = 0 THEN GalleryFull(rs)
                  ELSE SelectSeq(Reverse(rs), LAMBDA row : RowTs(row) > since),
        nextCursor |-> MaxTimestamp(rs, since)]

PhotoIds == {rows[i].id : i \in 1..Len(rows)}

\* ------------------------------------------------------------------ client
\* uploadGenerated / uploadGeneratedVideo: the file is created in Drive, then
\* the row is appended under the lock.
Upload(isVideo, limit) ==
  /\ Len(rows) < limit
  /\ drive' = Append(drive, [kind |-> IF isVideo THEN "video" ELSE "photo",
                             photo |-> Len(drive) + 1, url |-> None])
  /\ rows' = Append(rows, NewRow(Len(drive) + 1, isVideo, now))
  /\ UNCHANGED <<now, tasks, tick, triggers, fin, direct,
                 reqs, lock, rows0>>

\* queueVideoTask(photoId): a client asks for a video of an existing photo
\* whose row it sees in one of the statuses of `from`.
ClientQueueVideoWith(p, from, options, settings) ==
  /\ p \in PhotoIds
  /\ rows[FindRow(rows, p)].videoStatus \in from
  /\ rows' = QueueVideo(rows, QueueVideoTask(p, options, settings), now).rows
  /\ UNCHANGED <<drive, now, tasks, tick, triggers, fin, direct, reqs, lock, rows0>>

\* The same with no options and no stored settings.
ClientQueueVideo(p, from) == ClientQueueVideoWith(p, from, NoOptions, NoOptions)

\* A queueVideo request sent without the client helper: the body as given.
PostQueueVideo(data, from) ==
  /\ data.photoId \in PhotoIds
  /\ rows[FindRow(rows, data.photoId)].videoStatus \in from
  /\ rows' = QueueVideo(rows, data, now).rows
  /\ UNCHANGED <<drive, now, tasks, tick, triggers, fin, direct, reqs, lock, rows0>>

\* --------------------------------------------------------------- provider
\* POST /contents/generations/tasks accepted: a new task, its id returned.
NewTask(photoId, resolution) ==
  [photo |-> photoId, status |-> "processing", resolution |-> resolution]

\* The provider ends a running task.
ProviderFinish(i, outcome) ==
  /\ i \in 1..Len(tasks)
  /\ tasks[i].status = "processing"
  /\ tasks' = [tasks EXCEPT ![i].status = outcome]
  /\ UNCHANGED <<rows, drive, now, tick, triggers, fin, direct,
                 reqs, lock, rows0>>

\* The asset url the provider reports for a succeeded task.
VideoUrl(taskId) == taskId

\* -------------------------------------------------------------------- tick
Item(row) ==
  [id |-> row.id, videoTaskId |-> row.videoTaskId,
   videoResolution |-> row.videoResolution]

\* What the handler has answered: nothing yet (status 0), the report with
\* status 200, or the error of the outer catch block with status 500.
NoReply == [status |-> 0, ok |-> FALSE, processed |-> 0, started |-> 0,
            errors |-> <<>>, activeCount |-> 0]

\* An invocation: its place in the handler, the two lists of the snapshot, the
\* loop index k, the attempt index i of fetchGasWithRetry, the value in hand
\* (cur), the counters and the error list of the report, the number of race
\* warnings written to the console (warned), and its answer.
\* launched counts the start requests sent.  History: faults, the kinds of
\* call ("poll", "lock", "fail", "start", "record") that failed during the
\* invocation; moved, the rows for which the sheet applied this invocation's
\* processing write; won, the rows for which the sheet applied its change to
\* uploading.
IdleTick ==
  [pc |-> "idle", processingTasks |-> <<>>, queuedTasks |-> <<>>, k |-> 0,
   i |-> 0, cur |-> None, launched |-> 0, processed |-> 0, started |-> 0,
   errors |-> <<>>, warned |-> 0, faults |-> {}, moved |-> {}, won |-> {},
   resp |-> NoReply]

\* res.status(200).json({ ok: true, report, activeCount })
Reply(tk) ==
  [status |-> 200, ok |-> TRUE, processed |-> tk.processed,
   started |-> tk.started, errors |-> tk.errors,
   activeCount |-> Len(tk.processingTasks) + Len(tk.queuedTasks)]

\* res.status(500).json({ error: e.message })
Abort == [NoReply EXCEPT !.status = 500]

\* The invocation after it has answered.
Finished(tk, resp) ==
  [IdleTick EXCEPT !.resp = resp, !.warned = tk.warned, !.faults = tk.faults,
                   !.moved = tk.moved, !.won = tk.won]

\* toLowerCase on the status words the provider table holds.
ToLowerCase(word) ==
  CASE word \in {"SUCCEEDED", "Succeeded"} -> "succeeded"
    [] word \in {"SUCCESS", "Success"} -> "success"
    [] word \in {"FAILED", "Failed"} -> "failed"
    [] word \in {"ERROR", "Error"} -> "error"
    [] word \in {"RUNNING", "Running"} -> "running"
    [] OTHER -> word

\* Mutant of the status branches: the word is compared as it came.
PollBranchCaseSensitive(word) ==
  IF word \in {"succeeded", "success"} THEN "lock"
  ELSE IF word \in {"failed", "error"} THEN "fail"
  ELSE "next"

\* The branch the handler takes on the status word of a poll.
PollBranch(word) ==
  LET status == ToLowerCase(word) IN
  IF status \in {"succeeded", "success"} THEN "lock"
  ELSE IF status \in {"failed", "error"} THEN "fail"
  ELSE "next"

\* Mutant of the lock result: the answer's ok is not looked at.
LockWonAlways(resp) == TRUE

\* if (lockJson.ok)
LockWon(resp) == resp.ok

\* let finalRes = task.videoResolution || '480p', anything but 720p or 480p
\* replaced by 480p.
FinalRes(stored) ==
  LET finalRes == IF stored = "" THEN "480p" ELSE stored IN
  IF finalRes # "720p" /\ finalRes # "480p" THEN "480p" ELSE finalRes

IsStatus(st, row) == row.videoStatus = st

Items(rs, st) ==
  LET sel == SelectSeq(rs, LAMBDA row : IsStatus(st, row)) IN
  [i \in 1..Len(sel) |-> Item(sel[i])]

\* const availableSlots = MAX_CONCURRENT - processingTasks.length
AvailableSlots(tk) == MAX_CONCURRENT - Len(tk.processingTasks)

\* Mutant of the slice: every queued row of the snapshot is started.
StartListUncapped(tk) == tk.queuedTasks

\* queuedTasks.slice(0, availableSlots), empty unless availableSlots > 0
StartList(tk) ==
  IF Len(tk.processingTasks) < MAX_CONCURRENT
  THEN SubSeq(tk.queuedTasks, 1, Min(Len(tk.queuedTasks), AvailableSlots(tk)))
  ELSE <<>>

\* Control after one iteration of a loop: the next iteration, the second loop
\* once the first is exhausted, the 200 response once both are.
Continue(tk) ==
  IF tk.pc = "poll" /\ tk.k <= Len(tk.processingTasks) THEN tk
  ELSE IF tk.pc = "poll" /\ Len(StartList(tk)) > 0
  THEN [tk EXCEPT !.pc = "start", !.k = 1]
  ELSE IF tk.pc = "start" /\ tk.k <= Len(StartList(tk)) THEN tk
  ELSE Finished(tk, Reply(tk))

\* The handler reads the gallery and partitions it.
TickRead(t) ==
  /\ tick[t].pc = "idle"
  /\ \A u \in 1..(t - 1) : tick[u].pc # "idle"
  /\ LET items == GalleryFull(rows) IN
     tick' = [tick EXCEPT ![t] =
                Continue([IdleTick EXCEPT
                            !.pc = "poll", !.k = 1,
                            !.processingTasks = Items(items, "processing"),
                            !.queuedTasks = Items(items, "queued")])]
  /\ UNCHANGED <<rows, drive, now, tasks, triggers, fin, direct,
                 reqs, lock, rows0>>

\* One iteration of the first loop up to the status read from the provider.
TickPoll(t) ==
  /\ tick[t].pc = "poll"
  /\ LET tk == tick[t]
         task == tk.processingTasks[tk.k]
         next == [tk EXCEPT !.k = @ + 1]
     IN tick' = [tick EXCEPT ![t] =
          IF task.videoTaskId = None THEN Continue(next)
          ELSE IF PollBranch(tasks[task.videoTaskId].status) = "lock"
          THEN [tk EXCEPT !.pc = "lock", !.cur = VideoUrl(task.videoTaskId)]
          ELSE IF PollBranch(tasks[task.videoTaskId].status) = "fail"
          THEN [tk EXCEPT !.pc = "fail"]
          ELSE Continue(next)]
  /\ UNCHANGED <<rows, drive, now, tasks, triggers, fin, direct,
                 reqs, lock, rows0>>

\* The optimistic lock processing -> uploading and, when it is won, the
\* fire-and-forget finalizeVideoUpload request.
TickLock(t) ==
  /\ tick[t].pc = "lock"
  /\ LET tk == tick[t]
         task == tk.processingTasks[tk.k]
         res == UpdateVideoStatus(rows,
                  StatusUpdate(task.id, "uploading", None, tk.cur, "processing"),
                  now)
     IN /\ rows' = res.rows
        /\ triggers' = IF LockWon(res.resp)
                       THEN triggers \cup {[photoId |-> task.id, videoUrl |-> tk.cur]}
                       ELSE triggers
        /\ tick' = [tick EXCEPT ![t] =
                      Continue([tk EXCEPT
                                  !.pc = "poll", !.k = @ + 1, !.i = 0,
                                  !.cur = None,
                                  !.processed = IF LockWon(res.resp) THEN @ + 1 ELSE @,
                                  !.warned = IF LockWon(res.resp) THEN @ ELSE @ + 1,
                                  !.won = IF res.resp.ok THEN @ \cup {task.id}
                                          ELSE @])]
  /\ UNCHANGED <<drive, now, tasks, fin, direct, reqs, lock, rows0>>

\* The provider reported failed / error: unconditional update to failed.
TickFail(t) ==
  /\ tick[t].pc = "fail"
  /\ LET tk == tick[t]
         task == tk.processingTasks[tk.k]
     IN /\ rows' = UpdateVideoStatus(rows,
                     StatusUpdate(task.id, "failed", None, None, ""), now).rows
        /\ tick' = [tick EXCEPT ![t] =
                      Continue([tk EXCEPT !.pc = "poll", !.k = @ + 1, !.i = 0])]
  /\ UNCHANGED <<drive, now, tasks, triggers, fin, direct,
                 reqs, lock, rows0>>

\* Mutant of the rejected start: the same row is tried again.
StartRejectedRetries(tk) ==
  [tk EXCEPT !.launched = @ + 1, !.faults = @ \cup {"start"}]

\* The start request was answered with a status that is not ok, or without a
\* task id: the loop goes on with the next row.
StartRejected(tk) ==
  Continue([tk EXCEPT !.k = @ + 1, !.launched = @ + 1,
                      !.faults = @ \cup {"start"}])

\* One iteration of the second loop up to the provider's answer: the start
\* request is accepted (a task id comes back) or rejected.
TickStart(t, accepted, limit) ==
  /\ tick[t].pc = "start"
  /\ LET tk == tick[t]
         task == StartList(tk)[tk.k]
     IN IF accepted
        THEN /\ Len(tasks) < limit
             /\ tasks' = Append(tasks, NewTask(task.id, FinalRes(task.videoResolution)))
             /\ tick' = [tick EXCEPT ![t] =
                           [tk EXCEPT !.pc = "record", !.cur = Len(tasks) + 1,
                                      !.launched = @ + 1]]
        ELSE /\ tasks' = tasks
             /\ tick' = [tick EXCEPT ![t] = StartRejected(tk)]
  /\ UNCHANGED <<rows, drive, now, triggers, fin, direct,
                 reqs, lock, rows0>>

\* The plain update that records processing and the task id.
TickRecord(t) ==
  /\ tick[t].pc = "record"
  /\ LET tk == tick[t]
         task == StartList(tk)[tk.k]
         res == UpdateVideoStatus(rows,
                  StatusUpdate(task.id, "processing", tk.cur, None, ""), now)
     IN /\ rows' = res.rows
        /\ tick' = [tick EXCEPT ![t] =
                      Continue([tk EXCEPT !.pc = "start", !.k = @ + 1, !.i = 0,
                                          !.cur = None, !.started = @ + 1,
                                          !.moved = IF res.resp.ok
                                                    THEN @ \cup {task.id} ELSE @])]
  /\ UNCHANGED <<drive, now, tasks, triggers, fin, direct,
                 reqs, lock, rows0>>
\* ------------------------------------------------------ tick, failing calls
\* The updateVideoStatus body the tick sends at its place in the handler.
TickRequest(tk) ==
  IF tk.pc = "lock"
  THEN StatusUpdate(tk.processingTasks[tk.k].id, "uploading", None, tk.cur,
                    "processing")
  ELSE IF tk.pc = "fail"
  THEN StatusUpdate(tk.processingTasks[tk.k].id, "failed", None, None, "")
  ELSE StatusUpdate(StartList(tk)[tk.k].id, "processing", tk.cur, None, "")

\* fetchGasWithRetry: an attempt ends without an answer (the 10 s abort, a
\* network error, a status that is not ok).  applied = TRUE: the script ran
\* the request all the same.  Another attempt follows, or after the last one
\* the throw, which each of the three call sites catches and logs.
TickNoAnswer(t, applied) ==
  /\ tick[t].pc \in {"lock", "fail", "record"}
  /\ LET tk == tick[t]
         res == UpdateVideoStatus(rows, TickRequest(tk), now)
         seen == [tk EXCEPT !.moved = IF applied /\ tk.pc = "record" /\ res.resp.ok
                                      THEN @ \cup {TickRequest(tk).photoId}
                                      ELSE @,
                            !.won = IF applied /\ tk.pc = "lock" /\ res.resp.ok
                                    THEN @ \cup {TickRequest(tk).photoId}
                                    ELSE @]
     IN
     /\ rows' = IF applied THEN res.rows ELSE rows
     /\ tick' = [tick EXCEPT ![t] =
                   IF tk.i + 1 < GAS_RETRIES
                   THEN [seen EXCEPT !.i = @ + 1]
                   ELSE Continue([seen EXCEPT
                                    !.pc = IF tk.pc = "record" THEN "start"
                                           ELSE "poll",
                                    !.k = @ + 1, !.i = 0, !.cur = None,
                                    !.faults = @ \cup {tk.pc}])]
  /\ UNCHANGED <<drive, now, tasks, triggers, fin, direct, reqs, lock, rows0>>

\* The status request to the provider fails.  thrown = TRUE: fetch rejects (a
\* network error) or sRes.json() cannot parse the body; nothing around the
\* call catches it but the handler's outer catch block.  thrown = FALSE: a
\* status that is not ok, the row is passed over.
TickPollFails(t, thrown) ==
  /\ tick[t].pc = "poll"
  /\ tick[t].processingTasks[tick[t].k].videoTaskId # None
  /\ LET tk == tick[t] IN
     tick' = [tick EXCEPT ![t] =
                IF thrown
                THEN Finished([tk EXCEPT !.faults = @ \cup {"poll"}], Abort)
                ELSE Continue([tk EXCEPT !.k = @ + 1,
                                         !.faults = @ \cup {"poll"}])]
  /\ UNCHANGED <<rows, drive, now, tasks, triggers, fin, direct,
                 reqs, lock, rows0>>

\* The start request to the provider rejects or its body cannot be parsed:
\* the outer catch block again.
TickStartThrows(t) ==
  /\ tick[t].pc = "start"
  /\ tick' = [tick EXCEPT ![t] =
                Finished([tick[t] EXCEPT !.faults = @ \cup {"start"}], Abort)]
  /\ UNCHANGED <<rows, drive, now, tasks, triggers, fin, direct,
                 reqs, lock, rows0>>

\* --------------------------------------------------------------- finalizer
FreeFin ==
  [pc |-> "free", photoId |-> None, videoUrl |-> None, fileId |-> None,
   resp |-> Response(TRUE, "", "", "")]

FinalAssets(p) ==
  Cardinality({i \in 1..Len(drive) : drive[i].kind = "final" /\ drive[i].photo = p})

FinalCount ==
  Cardinality({i \in 1..Len(drive) : drive[i].kind = "final"})

\* A finalizeVideoUpload request reaches the script and starts to execute.
\* again = TRUE: the request is delivered although it stays in flight (a
\* retried or duplicated trigger).
FinDeliver(m, f, again) ==
  /\ m \in triggers
  /\ fin[f].pc = "free"
  /\ \A g \in 1..(f - 1) : fin[g].pc # "free"
  /\ fin' = [fin EXCEPT ![f] =
               [FreeFin EXCEPT !.pc = "precheck", !.photoId = m.photoId,
                               !.videoUrl = m.videoUrl]]
  /\ triggers' = IF again THEN triggers ELSE triggers \ {m}
  /\ UNCHANGED <<rows, drive, now, tasks, tick, direct, reqs, lock, rows0>>

\* The preCheck section and the early return it may cause.
FinPreCheck(f) ==
  /\ fin[f].pc = "precheck"
  /\ LET pre == FinalizePreCheck(rows, fin[f].photoId) IN
     fin' = [fin EXCEPT ![f] =
               IF pre.skip
               THEN [FreeFin EXCEPT !.resp = Response(TRUE, "", pre.reason, "")]
               ELSE [@ EXCEPT !.pc = "store"]]
  /\ UNCHANGED <<rows, drive, now, tasks, tick, triggers, direct,
                 reqs, lock, rows0>>

\* Download and store, outside the lock: the file is created in Drive.
FinStore(f, limit) ==
  /\ fin[f].pc = "store"
  /\ FinalCount < limit
  /\ drive' = Append(drive, [kind |-> "final", photo |-> fin[f].photoId,
                             url |-> fin[f].videoUrl])
  /\ fin' = [fin EXCEPT ![f] = [@ EXCEPT !.pc = "mark", !.fileId = Len(drive) + 1]]
  /\ UNCHANGED <<rows, now, tasks, tick, triggers, direct,
                 reqs, lock, rows0>>

\* The download throws or answers with a status other than 200: the handler
\* returns the error, the sheet is not touched.
FinFetchFails(f) ==
  /\ fin[f].pc = "store"
  /\ fin' = [fin EXCEPT ![f] =
               [FreeFin EXCEPT !.resp = Response(FALSE, "Fetch Failed", "", "")]]
  /\ UNCHANGED <<rows, drive, now, tasks, tick, triggers, direct,
                 reqs, lock, rows0>>

\* Something else inside the try block throws (the folder, createFile,
\* setSharing): the catch block sets the status to failed under the lock.
\* created = TRUE: the throw came after createFile.
FinStoreThrows(f, created, limit) ==
  /\ fin[f].pc = "store"
  /\ IF created
     THEN /\ FinalCount < limit
          /\ drive' = Append(drive, [kind |-> "final", photo |-> fin[f].photoId,
                             url |-> fin[f].videoUrl])
     ELSE drive' = drive
  /\ rows' = FinalizeMarkFailed(rows, fin[f].photoId)
  /\ fin' = [fin EXCEPT ![f] =
               [FreeFin EXCEPT !.resp = Response(FALSE, "Save Error", "", "")]]
  /\ UNCHANGED <<now, tasks, tick, triggers, direct, reqs, lock, rows0>>

\* The closing section: status done and the file id, under the lock.
FinMarkDone(f) ==
  /\ fin[f].pc = "mark"
  /\ LET res == FinalizeMarkDone(rows, fin[f].photoId, fin[f].fileId, now) IN
     /\ rows' = res.rows
     /\ fin' = [fin EXCEPT ![f] = [FreeFin EXCEPT !.resp = res.resp]]
  /\ UNCHANGED <<drive, now, tasks, tick, triggers, direct,
                 reqs, lock, rows0>>

\* ------------------------------------------------------------ direct start
\* Mutant of the model guard: every model passes.
IsValidVideoModelAny(model) == TRUE

\* isValidVideoModel: model.startsWith(VIDEO_PREFIX)
IsValidVideoModel(model) ==
  /\ Len(model) >= Len(VIDEO_PREFIX)
  /\ SubSeq(model, 1, Len(VIDEO_PREFIX)) = VIDEO_PREFIX

\* let videoResolution = resolution || '480p', anything but 480p or 720p
\* replaced by 480p.
VideoResolution(resolution) ==
  LET videoResolution == IF resolution = "" THEN "480p" ELSE resolution IN
  IF videoResolution # "480p" /\ videoResolution # "720p"
  THEN "480p" ELSE videoResolution

\* Mutant of startArkVideoTask: the resolution is passed through.
StartArkVideoTaskAnyResolution(payload) ==
  LET requestedRes == IF payload.resolution = "" THEN "480p"
                      ELSE payload.resolution IN
  [ok |-> TRUE, resolution |-> requestedRes]

\* startArkVideoTask up to its request to the provider: the throw for a
\* resolution that is not allowed, or the resolution of the request body.
StartArkVideoTask(payload) ==
  LET requestedRes == IF payload.resolution = "" THEN "480p"
                      ELSE payload.resolution IN
  IF requestedRes \notin {"480p", "720p"}
  THEN [ok |-> FALSE, resolution |-> requestedRes]
  ELSE [ok |-> TRUE, resolution |-> requestedRes]

\* req.body of POST /api/video/generate; imageBase64 says whether one is given.
DirectBody(driveFileId, imageBase64, model, resolution) ==
  [driveFileId |-> driveFileId, imageBase64 |-> imageBase64, model |-> model,
   resolution |-> resolution]

NoBody == DirectBody(None, FALSE, <<>>, "")

\* The answer of the endpoint: status 0 is no answer yet.
DirectReply(status, ok, taskId, resolution) ==
  [status |-> status, ok |-> ok, taskId |-> taskId, resolution |-> resolution]

\* A request slot: the body, the task id and resolution in hand, the attempt
\* index i of fetchGasWithRetry, and the answer.  lib = TRUE marks a plain
\* call of startArkVideoTask with the body as payload.  History: faults, as
\* for the tick.
IdleDirect ==
  [pc |-> "idle", body |-> NoBody, lib |-> FALSE, taskId |-> None,
   resolution |-> "", i |-> 0, faults |-> {},
   resp |-> DirectReply(0, FALSE, None, "")]

\* The request answered at once, with an error status.
DirectRefused(body, status) ==
  [IdleDirect EXCEPT !.body = body, !.resp = DirectReply(status, FALSE, None, "")]

\* Mutant of the return: a ledger write that failed turns the answer into an
\* error.
DirectReturnFailsWithLedger(dr, gasFailed) ==
  [IdleDirect EXCEPT
     !.body = dr.body,
     !.faults = IF gasFailed THEN {"record"} ELSE {},
     !.resp = IF gasFailed THEN DirectReply(500, FALSE, None, "")
              ELSE DirectReply(200, TRUE, dr.taskId, dr.resolution)]

\* res.status(200).json({ ok: true, taskId, ..., resolution }), reached
\* whether the ledger write was answered or threw after its last attempt.
DirectReturn(dr, gasFailed) ==
  [IdleDirect EXCEPT
     !.body = dr.body,
     !.faults = IF gasFailed THEN {"record"} ELSE {},
     !.resp = DirectReply(200, TRUE, dr.taskId, dr.resolution)]

\* POST /api/video/generate up to the provider's answer: the model guard, the
\* resolution, the input image, then startArkVideoTask, whose request the
\* provider accepts (the id of a new task comes back) or not.
DirectStartWith(d, body, accepted, limit) ==
  /\ direct[d].pc = "idle"
  /\ \A e \in 1..(d - 1) : direct[e].pc # "idle"
  /\ LET selectedModel == IF body.model # <<>> THEN body.model ELSE DefaultModel
         videoResolution == VideoResolution(body.resolution)
         call == StartArkVideoTask([model |-> selectedModel,
                                    resolution |-> videoResolution])
         started == [IdleDirect EXCEPT !.body = body,
                                       !.taskId = Len(tasks) + 1,
                                       !.resolution = videoResolution]
     IN
     IF ~IsValidVideoModel(selectedModel)
     THEN tasks' = tasks /\ direct' = [direct EXCEPT ![d] = DirectRefused(body, 400)]
     ELSE IF body.driveFileId = None /\ ~body.imageBase64
     THEN tasks' = tasks /\ direct' = [direct EXCEPT ![d] = DirectRefused(body, 400)]
     ELSE IF ~call.ok
     THEN tasks' = tasks /\ direct' = [direct EXCEPT ![d] = DirectRefused(body, 500)]
     ELSE IF ~accepted
     THEN tasks' = tasks /\ direct' = [direct EXCEPT ![d] = DirectRefused(body, 502)]
     ELSE /\ Len(tasks) < limit
          /\ tasks' = Append(tasks, NewTask(body.driveFileId, call.resolution))
          /\ direct' = [direct EXCEPT ![d] =
                          IF body.driveFileId # None
                          THEN [started EXCEPT !.pc = "record"]
                          ELSE DirectReturn(started, FALSE)]
  /\ UNCHANGED <<rows, drive, now, triggers, tick, fin, reqs, lock, rows0>>

\* The same for driveFileId = p, nothing else in the body, and a provider
\* that accepts.
DirectStart(d, p, limit) ==
  /\ p \in PhotoIds
  /\ DirectStartWith(d, DirectBody(p, FALSE, <<>>, ""), TRUE, limit)

\* The updateVideoStatus body of the bookkeeping write (no requireStatus).
DirectRequest(dr) ==
  StatusUpdate(dr.body.driveFileId, "processing", dr.taskId, None, "")

\* The bookkeeping write is answered, then the 200 response.
DirectRecord(d) ==
  /\ direct[d].pc = "record"
  /\ rows' = UpdateVideoStatus(rows, DirectRequest(direct[d]), now).rows
  /\ direct' = [direct EXCEPT ![d] = DirectReturn(direct[d], FALSE)]
  /\ UNCHANGED <<drive, now, tasks, tick, triggers, fin,
                 reqs, lock, rows0>>

\* fetchGasWithRetry of the endpoint: an attempt ends without an answer;
\* another one follows, or after the last one the throw, which the handler
\* catches and logs before it answers.
DirectNoAnswer(d, applied) ==
  /\ direct[d].pc = "record"
  /\ rows' = IF applied
             THEN UpdateVideoStatus(rows, DirectRequest(direct[d]), now).rows
             ELSE rows
  /\ direct' = [direct EXCEPT ![d] =
                  IF direct[d].i + 1 < DIRECT_RETRIES
                  THEN [@ EXCEPT !.i = @ + 1]
                  ELSE DirectReturn(direct[d], TRUE)]
  /\ UNCHANGED <<drive, now, tasks, tick, triggers, fin,
                 reqs, lock, rows0>>

\* A plain call of startArkVideoTask with resolution in its payload.
CallStartArkVideoTask(d, resolution, accepted, limit) ==
  /\ direct[d].pc = "idle"
  /\ \A e \in 1..(d - 1) : direct[e].pc # "idle"
  /\ LET body == DirectBody(None, TRUE, DefaultModel, resolution)
         call == StartArkVideoTask([model |-> DefaultModel,
                                    resolution |-> resolution])
         called == [IdleDirect EXCEPT !.body = body, !.lib = TRUE]
     IN
     IF call.ok /\ accepted
     THEN /\ Len(tasks) < limit
          /\ tasks' = Append(tasks, NewTask(None, call.resolution))
          /\ direct' = [direct EXCEPT ![d] =
                          [called EXCEPT !.resp = DirectReply(200, TRUE,
                                                   Len(tasks) + 1, call.resolution)]]
     ELSE /\ tasks' = tasks
          /\ direct' = [direct EXCEPT ![d] =
                          [called EXCEPT !.resp = DirectReply(500, FALSE, None, "")]]
  /\ UNCHANGED <<rows, drive, now, triggers, tick, fin, reqs, lock, rows0>>

\* ----------------------------------------------------------- specification
Init ==
  /\ rows = <<>>
  /\ drive = <<>>
  /\ now = 1
  /\ tasks = <<>>
  /\ tick = [t \in 1..NumTicks |-> IdleTick]
  /\ triggers = {}
  /\ fin = [f \in 1..NumFin |-> FreeFin]
  /\ direct = [d \in 1..NumDirect |-> IdleDirect]
  /\ reqs = <<>>
  /\ lock = 0
  /\ rows0 = <<>>

Next ==
  \/ \E v \in BOOLEAN : Upload(v, MaxRows)
  \/ \E p \in PhotoIds : ClientQueueVideo(p, Statuses)
  \/ \E i \in 1..Len(tasks), o \in {"succeeded", "failed"} : ProviderFinish(i, o)
  \/ \E t \in 1..NumTicks : TickRead(t)
  \/ \E t \in 1..NumTicks : TickPoll(t)
  \/ \E t \in 1..NumTicks : TickLock(t)
  \/ \E t \in 1..NumTicks : TickFail(t)
  \/ \E t \in 1..NumTicks, a \in BOOLEAN : TickStart(t, a, MaxTasks)
  \/ \E t \in 1..NumTicks : TickRecord(t)
  \/ \E m \in triggers, f \in 1..NumFin : FinDeliver(m, f, FALSE)
  \/ \E f \in 1..NumFin : FinPreCheck(f)
  \/ \E f \in 1..NumFin : FinStore(f, MaxFinals)
  \/ \E f \in 1..NumFin : FinFetchFails(f)
  \/ \E f \in 1..NumFin, c \in BOOLEAN : FinStoreThrows(f, c, MaxFinals)
  \/ \E f \in 1..NumFin : FinMarkDone(f)
  \/ \E d \in 1..NumDirect, p \in PhotoIds : DirectStart(d, p, MaxTasks)
  \/ \E d \in 1..NumDirect : DirectRecord(d)

Spec == Init /\ [][Next]_vars


\* ----------------------------------------------- reconciler specification
\* The system as the application drives it: a photo is queued once, from
\* idle; every start goes through a tick; every trigger is delivered once.
NextTicks ==
  \/ \E v \in BOOLEAN : Upload(v, MaxRows)
  \/ \E p \in PhotoIds : ClientQueueVideo(p, {"idle"})
  \/ \E i \in 1..Len(tasks), o \in {"succeeded", "failed"} : ProviderFinish(i, o)
  \/ \E t \in 1..NumTicks : TickRead(t)
  \/ \E t \in 1..NumTicks : TickPoll(t)
  \/ \E t \in 1..NumTicks : TickLock(t)
  \/ \E t \in 1..NumTicks : TickFail(t)
  \/ \E t \in 1..NumTicks, a \in BOOLEAN : TickStart(t, a, MaxTasks)
  \/ \E t \in 1..NumTicks : TickRecord(t)
  \/ \E m \in triggers, f \in 1..NumFin : FinDeliver(m, f, FALSE)
  \/ \E f \in 1..NumFin : FinPreCheck(f)
  \/ \E f \in 1..NumFin : FinStore(f, MaxFinals)
  \/ \E f \in 1..NumFin : FinFetchFails(f)
  \/ \E f \in 1..NumFin, c \in BOOLEAN : FinStoreThrows(f, c, MaxFinals)
  \/ \E f \in 1..NumFin : FinMarkDone(f)

SpecTicks == Init /\ [][NextTicks]_vars

\* ------------------------------------------------- admission specification
\* One tick invocation at a time over a longer sheet, with a provider that has
\* not ended any task yet: the rows a tick starts.
NextCap ==
  \/ Upload(FALSE, CapRows)
  \/ \E p \in PhotoIds : ClientQueueVideo(p, {"idle"})
  \/ TickRead(1)
  \/ TickPoll(1)
  \/ \E a \in BOOLEAN : TickStart(1, a, CapTasks)
  \/ TickRecord(1)

SpecCap == Init /\ [][NextCap]_vars

\* The same with the direct generation-start endpoint: the rows in processing.
NextLoad ==
  \/ NextCap
  \/ \E d \in 1..NumDirect, p \in PhotoIds : DirectStart(d, p, CapTasks)
  \/ \E d \in 1..NumDirect : DirectRecord(d)

SpecLoad == Init /\ [][NextLoad]_vars

\* ------------------------------------------------ lock-level specification
\* NumReqs concurrent doPost executions of 'updateVideoStatus' against a sheet
\* of one row, with the script lock of executeWithLock explicit.
BusyError == "Error: Server busy (Lock timeout)."

\* The requests the tick and the direct-start endpoint send, and one that
\* names a photo that is not in the sheet.
CasInputs ==
  { StatusUpdate(1, "uploading", None, 1, "processing"),
    StatusUpdate(1, "processing", 1, None, ""),
    StatusUpdate(1, "failed", None, None, ""),
    StatusUpdate(1, "processing", 1, None, "queued"),
    StatusUpdate(2, "uploading", None, 1, "processing") }

NewReq(data) ==
  [data |-> data, pc |-> "new", resp |-> Response(FALSE, "", "", "")]

\* A row of photo 1 as the lifecycle leaves it in status st.
RowIn(st) ==
  [id |-> 1, type |-> "image", videoStatus |-> st,
   videoTaskId |-> IF st \in {"idle", "queued"} THEN None ELSE 1,
   providerUrl |-> IF st \in {"uploading", "done"} THEN 1 ELSE None,
   videoFileId |-> IF st = "done" THEN 2 ELSE None,
   videoPrompt |-> "",
   videoResolution |-> IF st = "idle" THEN "" ELSE "480p",
   videoModel |-> IF st = "idle" THEN <<>> ELSE DefaultModel,
   createdAt |-> 0,
   updatedAt |-> 0]

InitCas ==
  /\ \E st \in Statuses :
       /\ rows = <<RowIn(st)>>
       /\ drive = IF st = "done"
                  THEN <<[kind |-> "photo", photo |-> 1, url |-> None],
                         [kind |-> "final", photo |-> 1, url |-> 1]>>
                  ELSE <<[kind |-> "photo", photo |-> 1, url |-> None]>>
  /\ rows0 = rows
  /\ now = 1
  /\ tasks = <<>>
  /\ tick = [t \in 1..NumTicks |-> IdleTick]
  /\ triggers = {}
  /\ fin = [f \in 1..NumFin |-> FreeFin]
  /\ direct = [d \in 1..NumDirect |-> IdleDirect]
  /\ reqs \in [1..NumReqs -> {NewReq(d) : d \in CasInputs}]
  /\ lock = 0

\* executeWithLock: lock.tryLock(timeoutMs) succeeds.
ReqAcquire(q) ==
  /\ reqs[q].pc = "new"
  /\ lock = 0
  /\ lock' = q
  /\ reqs' = [reqs EXCEPT ![q].pc = "locked"]
  /\ UNCHANGED <<rows, drive, now, tasks, tick, triggers, fin, direct, rows0>>

\* executeWithLock: tryLock gives up while another execution holds the lock;
\* the throw is caught by doPost, which answers ok:false with the message.
ReqTimeout(q) ==
  /\ reqs[q].pc = "new"
  /\ lock # 0
  /\ reqs' = [reqs EXCEPT ![q] =
                [@ EXCEPT !.pc = "done",
                          !.resp = Response(FALSE, BusyError, "", "")]]
  /\ UNCHANGED <<rows, drive, now, tasks, tick, triggers, fin, direct, lock, rows0>>

\* executeWithLock: the callback runs and the lock is released.
ReqRun(q) ==
  /\ reqs[q].pc = "locked"
  /\ LET res == UpdateVideoStatus(rows, reqs[q].data, now) IN
     /\ rows' = res.rows
     /\ reqs' = [reqs EXCEPT ![q] = [@ EXCEPT !.pc = "done", !.resp = res.resp]]
  /\ lock' = 0
  /\ UNCHANGED <<drive, now, tasks, tick, triggers, fin, direct, rows0>>

NextCas ==
  \/ \E q \in 1..NumReqs : ReqAcquire(q)
  \/ \E q \in 1..NumReqs : ReqTimeout(q)
  \/ \E q \in 1..NumReqs : ReqRun(q)

SpecCas == InitCas /\ [][NextCas]_vars


\* ------------------------------------------------ finalizer specification
\* The finalizeVideoUpload action as an endpoint: requests for photo 1 and for
\* a photo that is not in the sheet, each possibly delivered more than once,
\* against a sheet of one row in any state the lifecycle can leave it in.

\* A row of photo 1 in status st that was done before and was started again:
\* the videoFileId of the earlier run is still on it.
RowAgain(st) == [RowIn(st) EXCEPT !.videoTaskId = 1, !.videoFileId = 2]

InitFin ==
  /\ \E st \in Statuses, before \in BOOLEAN :
       /\ rows = IF before THEN <<RowAgain(st)>> ELSE <<RowIn(st)>>
       /\ drive = IF before \/ st = "done"
                  THEN <<[kind |-> "photo", photo |-> 1, url |-> None],
                         [kind |-> "final", photo |-> 1, url |-> 2]>>
                  ELSE <<[kind |-> "photo", photo |-> 1, url |-> None]>>
  /\ rows0 = rows
  /\ now = 1
  /\ tasks = <<>>
  /\ tick = [t \in 1..NumTicks |-> IdleTick]
  /\ triggers = {[photoId |-> 1, videoUrl |-> 1], [photoId |-> 3, videoUrl |-> 1]}
  /\ fin = [f \in 1..NumFin |-> FreeFin]
  /\ direct = [d \in 1..NumDirect |-> IdleDirect]
  /\ reqs = <<>>
  /\ lock = 0

NextFin ==
  \/ \E m \in triggers, f \in 1..NumFin, a \in BOOLEAN : FinDeliver(m, f, a)
  \/ \E f \in 1..NumFin : FinPreCheck(f)
  \/ \E f \in 1..NumFin : FinStore(f, MaxFinals)
  \/ \E f \in 1..NumFin : FinFetchFails(f)
  \/ \E f \in 1..NumFin, c \in BOOLEAN : FinStoreThrows(f, c, MaxFinals)
  \/ \E f \in 1..NumFin : FinMarkDone(f)

SpecFin == InitFin /\ [][NextFin]_vars

\* ---------------------------------------------------- fault specification
\* One tick invocation at a time with calls that fail: the provider's status
\* and start requests, and the three updateVideoStatus requests of the tick.
\* No finalizeVideoUpload request is delivered, so `triggers` holds every
\* request the ticks have sent.
NextFaults ==
  \/ Upload(FALSE, FaultRows)
  \/ \E p \in PhotoIds : ClientQueueVideo(p, {"idle"})
  \/ \E i \in 1..Len(tasks), o \in {"succeeded", "failed"} : ProviderFinish(i, o)
  \/ TickRead(1)
  \/ TickPoll(1)
  \/ TickLock(1)
  \/ TickFail(1)
  \/ \E a \in BOOLEAN : TickStart(1, a, MaxTasks)
  \/ TickRecord(1)
  \/ \E a \in BOOLEAN : TickNoAnswer(1, a)
  \/ \E th \in BOOLEAN : TickPollFails(1, th)
  \/ TickStartThrows(1)

SpecFaults == Init /\ [][NextFaults]_vars

\* The requests of the tick that go through fetchGasWithRetry: each attempt is
\* answered or ended by the abort of its 10 s timer, and the attempts are
\* counted, so the call always ends.
TickGasCall ==
  \/ TickLock(1)
  \/ TickFail(1)
  \/ TickRecord(1)
  \/ \E a \in BOOLEAN : TickNoAnswer(1, a)

\* The fault specification with calls that may never be answered.  The
\* fairness condition covers the requests sent through fetchGasWithRetry
\* only: the status and start requests to the provider are plain fetch calls
\* without a signal or a timer, so nothing in the handler ends them when the
\* provider stays silent.
SpecHang == Init /\ [][NextFaults]_vars /\ WF_vars(TickGasCall)

\* ----------------------------------------------- long-sheet specification
\* A sheet of one row more than the gallery action returns on a full sync, the
\* rows of WidePhotos queued by clients at most once each, one tick invocation
\* at a time, and no failing call.  The fairness conditions say that the tick
\* endpoint keeps being polled and every request is answered, that the
\* provider ends every task, and that every finalizeVideoUpload request is
\* delivered and runs to its end.
WideRows == FULL_SYNC_LIMIT + 1

WidePhotos == {1, 2, WideRows}

InitWide ==
  /\ now = 1
  /\ rows = [i \in 1..WideRows |-> NewRow(i, FALSE, now)]
  /\ drive = [i \in 1..WideRows |-> [kind |-> "photo", photo |-> i, url |-> None]]
  /\ rows0 = <<>>
  /\ tasks = <<>>
  /\ tick = [t \in 1..NumTicks |-> IdleTick]
  /\ triggers = {}
  /\ fin = [f \in 1..NumFin |-> FreeFin]
  /\ direct = [d \in 1..NumDirect |-> IdleDirect]
  /\ reqs = <<>>
  /\ lock = 0

WideTick ==
  \/ TickRead(1)
  \/ TickPoll(1)
  \/ TickLock(1)
  \/ TickFail(1)
  \/ TickStart(1, TRUE, WideRows)
  \/ TickRecord(1)

WideProvider ==
  \E i \in 1..Len(tasks), o \in {"succeeded", "failed"} : ProviderFinish(i, o)

WideFin ==
  \/ \E m \in triggers : FinDeliver(m, 1, FALSE)
  \/ FinPreCheck(1)
  \/ FinStore(1, WideRows)
  \/ FinMarkDone(1)

NextWide ==
  \/ \E p \in WidePhotos : ClientQueueVideo(p, {"idle"})
  \/ WideTick
  \/ WideProvider
  \/ WideFin

SpecWide ==
  /\ InitWide /\ [][NextWide]_vars
  /\ WF_vars(WideTick) /\ WF_vars(WideProvider) /\ WF_vars(WideFin)

\* ---------------------------------------------------- start specification
\* The two ways a generation is started, and startArkVideoTask called on its
\* own, with resolutions inside and outside the allowed set; the ledger write
\* of the direct-start endpoint may go unanswered.
Resolutions == {"", "480p", "720p", "1080p"}

\* Bodies of POST /api/video/generate: with a Drive file or an inline image,
\* without any image, and with a model that is not a video model.
StartBodies ==
  {DirectBody(p, FALSE, <<>>, r) : p \in PhotoIds, r \in Resolutions}
    \cup {DirectBody(None, TRUE, <<>>, r) : r \in Resolutions}
    \cup {DirectBody(None, FALSE, <<>>, "480p"),
          DirectBody(None, TRUE, <<"g", "p", "t">>, "480p")}

NextStart ==
  \/ Upload(FALSE, MaxRows)
  \/ \E p \in PhotoIds, r \in Resolutions :
       ClientQueueVideoWith(p, {"idle"}, [NoOptions EXCEPT !.resolution = r],
                            NoOptions)
  \/ \E p \in PhotoIds :
       PostQueueVideo([photoId |-> p, prompt |-> "", resolution |-> "",
                       model |-> <<>>], {"idle"})
  \/ TickRead(1)
  \/ TickPoll(1)
  \/ \E a \in BOOLEAN : TickStart(1, a, MaxTasks)
  \/ TickRecord(1)
  \/ \E d \in 1..NumDirect, body \in StartBodies, a \in BOOLEAN :
       DirectStartWith(d, body, a, MaxTasks)
  \/ \E d \in 1..NumDirect : DirectRecord(d)
  \/ \E d \in 1..NumDirect, a \in BOOLEAN : DirectNoAnswer(d, a)
  \/ \E d \in 1..NumDirect, r \in Resolutions, a \in BOOLEAN :
       CallStartArkVideoTask(d, r, a, MaxTasks)

SpecStart == Init /\ [][NextStart]_vars

\* ------------------------------------------------ status-word specification
\* One tick invocation at a time, every call answered, a provider that reports
\* its status words in any letter case, and clients that queue a row again
\* whatever its status, so that a row may have changed when a write of the
\* tick is applied.
StatusWords == {"succeeded", "SUCCESS", "failed", "FAILED", "Error", "Running"}

NextWords ==
  \/ Upload(FALSE, MaxRows)
  \/ \E p \in PhotoIds : ClientQueueVideo(p, Statuses)
  \/ \E i \in 1..Len(tasks), o \in StatusWords : ProviderFinish(i, o)
  \/ TickRead(1)
  \/ TickPoll(1)
  \/ TickLock(1)
  \/ TickFail(1)
  \/ \E a \in BOOLEAN : TickStart(1, a, MaxTasks)
  \/ TickRecord(1)

SpecWords == Init /\ [][NextWords]_vars

\* ------------------------------------------------ cell-level specification
\* NumLk concurrent doPost executions of the ledger write actions against a
\* sheet of one row, with the script lock and every setValue call explicit.

\* Mutant of tryLock: the lock is granted although it is held.
TryLockAlways(holder) == TRUE

\* lock.tryLock(timeoutMs) succeeds when no execution holds the script lock.
TryLock(holder) == holder = 0

\* Mutant of the setValue calls of queueVideo: the status cell alone.
QueueVideoCellsStatusOnly(data, nowIso) ==
  << <<"videoStatus", "queued">>, <<"updatedAt", nowIso>> >>

\* The setValue calls of queueVideo on the row it found, in their order.
QueueVideoCells(data, nowIso) ==
  << <<"videoStatus", "queued">> >>
    \o (IF data.prompt # "" THEN << <<"videoPrompt", data.prompt>> >> ELSE <<>>)
    \o (IF data.resolution # ""
        THEN << <<"videoResolution", data.resolution>> >> ELSE <<>>)
    \o (IF data.model # <<>> THEN << <<"videoModel", data.model>> >> ELSE <<>>)
    \o << <<"updatedAt", nowIso>> >>

\* The setValue calls of updateVideoStatus once its checks have passed.
UpdateVideoStatusCells(data, nowIso) ==
  (IF data.status # "" THEN << <<"videoStatus", data.status>> >> ELSE <<>>)
    \o (IF data.taskId # None THEN << <<"videoTaskId", data.taskId>> >> ELSE <<>>)
    \o (IF data.providerUrl # None
        THEN << <<"providerUrl", data.providerUrl>> >> ELSE <<>>)
    \o << <<"updatedAt", nowIso>> >>

\* The setValue calls of the closing section of finalizeVideoUpload.
FinalizeMarkDoneCells(data, nowIso) ==
  << <<"videoStatus", "done">>, <<"videoFileId", data.fileId>>,
     <<"updatedAt", nowIso>> >>

\* An execution: the action and its body, its place (new, locked, write,
\* release, done), the values it read, the number of cells it has written,
\* and its answer.
NewLk(action, data) ==
  [action |-> action, data |-> data, pc |-> "new", values |-> <<>>,
   step |-> 0, resp |-> Response(FALSE, "", "", "")]

\* The callback of the action as one function of the values read.
LkCallback(req, rs) ==
  CASE req.action = "queueVideo" -> QueueVideo(rs, req.data, now)
    [] req.action = "updateVideoStatus" -> UpdateVideoStatus(rs, req.data, now)
    [] req.action = "finalizeVideoUpload" ->
         FinalizeMarkDone(rs, req.data.photoId, req.data.fileId, now)

LkCells(req) ==
  CASE req.action = "queueVideo" -> QueueVideoCells(req.data, now)
    [] req.action = "updateVideoStatus" -> UpdateVideoStatusCells(req.data, now)
    [] req.action = "finalizeVideoUpload" -> FinalizeMarkDoneCells(req.data, now)

\* queueVideo with every parameter, with none, and for a photo that is not
\* in the sheet; the two updateVideoStatus bodies of the tick; the closing
\* section of a finalizer.
LkInputs ==
  { NewLk("queueVideo", [photoId |-> 1, prompt |-> "zoom",
                         resolution |-> "720p", model |-> DefaultModel]),
    NewLk("queueVideo", [photoId |-> 1, prompt |-> "", resolution |-> "",
                         model |-> <<>>]),
    NewLk("queueVideo", [photoId |-> 2, prompt |-> "zoom",
                         resolution |-> "720p", model |-> DefaultModel]),
    NewLk("updateVideoStatus", StatusUpdate(1, "processing", 1, None, "")),
    NewLk("updateVideoStatus",
          StatusUpdate(1, "uploading", None, 1, "processing")),
    NewLk("finalizeVideoUpload", [photoId |-> 1, fileId |-> 2]) }

InitLk ==
  /\ \E st \in Statuses : rows = <<RowIn(st)>>
  /\ drive = <<[kind |-> "photo", photo |-> 1, url |-> None]>>
  /\ rows0 = rows
  /\ now = 1
  /\ tasks = <<>>
  /\ tick = [t \in 1..NumTicks |-> IdleTick]
  /\ triggers = {}
  /\ fin = [f \in 1..NumFin |-> FreeFin]
  /\ direct = [d \in 1..NumDirect |-> IdleDirect]
  /\ reqs \in [1..NumLk -> LkInputs]
  /\ lock = 0

\* executeWithLock: tryLock succeeds, the callback is entered.
LkAcquire(q) ==
  /\ reqs[q].pc = "new"
  /\ TryLock(lock)
  /\ lock' = q
  /\ reqs' = [reqs EXCEPT ![q].pc = "locked"]
  /\ UNCHANGED <<rows, drive, now, tasks, tick, triggers, fin, direct, rows0>>

\* executeWithLock: tryLock gives up, doPost answers with the message.
LkTimeout(q) ==
  /\ reqs[q].pc = "new"
  /\ lock # 0
  /\ reqs' = [reqs EXCEPT ![q] =
                [@ EXCEPT !.pc = "done",
                          !.resp = Response(FALSE, BusyError, "", "")]]
  /\ UNCHANGED <<rows, drive, now, tasks, tick, triggers, fin, direct, lock, rows0>>

\* getDataRange().getValues(), the search for the row and the checks: the
\* answer is decided here; an ok answer is followed by the setValue calls.
LkRead(q) ==
  /\ reqs[q].pc = "locked"
  /\ LET res == LkCallback(reqs[q], rows) IN
     reqs' = [reqs EXCEPT ![q] =
                [@ EXCEPT !.pc = IF res.resp.ok THEN "write" ELSE "release",
                          !.values = rows, !.resp = res.resp]]
  /\ UNCHANGED <<rows, drive, now, tasks, tick, triggers, fin, direct, lock, rows0>>

\* One setValue call on the row found in the values read.
LkWrite(q) ==
  /\ reqs[q].pc = "write"
  /\ LET req == reqs[q]
         i == FindRow(req.values, req.data.photoId)
         cell == LkCells(req)[req.step + 1]
     IN /\ rows' = [rows EXCEPT ![i] = [@ EXCEPT ![cell[1]] = cell[2]]]
        /\ reqs' = [reqs EXCEPT ![q] =
                      [@ EXCEPT !.step = @ + 1,
                                !.pc = IF req.step + 1 = Len(LkCells(req))
                                       THEN "release" ELSE "write"]]
  /\ UNCHANGED <<drive, now, tasks, tick, triggers, fin, direct, lock, rows0>>

\* The callback returns, finally releaseLock, the answer is sent.
LkRelease(q) ==
  /\ reqs[q].pc = "release"
  /\ lock' = IF lock = q THEN 0 ELSE lock
  /\ reqs' = [reqs EXCEPT ![q].pc = "done"]
  /\ UNCHANGED <<rows, drive, now, tasks, tick, triggers, fin, direct, rows0>>

NextLk ==
  \/ \E q \in 1..NumLk : LkAcquire(q)
  \/ \E q \in 1..NumLk : LkTimeout(q)
  \/ \E q \in 1..NumLk : LkRead(q)
  \/ \E q \in 1..NumLk : LkWrite(q)
  \/ \E q \in 1..NumLk : LkRelease(q)

SpecLk == InitLk /\ [][NextLk]_vars

\* The same with gallery reads: doGet takes no script lock, so a read runs
\* at any moment, also between two setValue calls of a locked section.
LkGalleryInput == NewLk("gallery", [photoId |-> None])

InitLkRead ==
  /\ \E st \in Statuses : rows = <<RowIn(st)>>
  /\ drive = <<[kind |-> "photo", photo |-> 1, url |-> None]>>
  /\ rows0 = rows
  /\ now = 1
  /\ tasks = <<>>
  /\ tick = [t \in 1..NumTicks |-> IdleTick]
  /\ triggers = {}
  /\ fin = [f \in 1..NumFin |-> FreeFin]
  /\ direct = [d \in 1..NumDirect |-> IdleDirect]
  /\ reqs \in [1..NumLk -> LkInputs \cup {LkGalleryInput}]
  /\ lock = 0

\* doGet action 'gallery' with since = 0: getValues and the answer.
LkGallery(q) ==
  /\ reqs[q].action = "gallery"
  /\ reqs[q].pc = "new"
  /\ reqs' = [reqs EXCEPT ![q] =
                [@ EXCEPT !.pc = "done", !.values = GalleryFull(rows),
                          !.resp = Response(TRUE, "", "", "")]]
  /\ UNCHANGED <<rows, drive, now, tasks, tick, triggers, fin, direct, lock, rows0>>

\* An execution that takes the lock is one of the write actions.
LkWriter(q) == reqs[q].action # "gallery"

NextLkRead ==
  \/ \E q \in 1..NumLk : LkWriter(q) /\ LkAcquire(q)
  \/ \E q \in 1..NumLk : LkWriter(q) /\ LkTimeout(q)
  \/ \E q \in 1..NumLk : LkRead(q)
  \/ \E q \in 1..NumLk : LkWrite(q)
  \/ \E q \in 1..NumLk : LkRelease(q)
  \/ \E q \in 1..NumLk : LkGallery(q)

SpecLkRead == InitLkRead /\ [][NextLkRead]_vars

\* ------------------------------------------------- retry specification
\* NumCalls calls of fetchGasWithRetry, of the tick (retries = GAS_RETRIES) or
\* of the direct-start endpoint (retries = DIRECT_RETRIES), step by step.

\* A call: the loop index i, its place in the body of the loop (fetch: the
\* request is out and the abort timer is set; body: fetch has resolved with
\* an ok status, the timer is cleared and res.json() reads the body; wait:
\* the pause before the next attempt; returned; thrown), the number of
\* requests sent and of attempts that failed.
NewCall(retries) ==
  [retries |-> retries, i |-> 0, pc |-> "fetch", timer |-> TRUE,
   attempts |-> 1, failed |-> 0]

\* catch (e): throw after the last attempt, else the pause.
AttemptFailed(call) ==
  IF call.i = call.retries - 1
  THEN [call EXCEPT !.pc = "thrown", !.timer = FALSE, !.failed = @ + 1]
  ELSE [call EXCEPT !.pc = "wait", !.timer = FALSE, !.failed = @ + 1]

InitRetry ==
  /\ rows = <<>>
  /\ drive = <<>>
  /\ rows0 = <<>>
  /\ now = 1
  /\ tasks = <<>>
  /\ tick = [t \in 1..NumTicks |-> IdleTick]
  /\ triggers = {}
  /\ fin = [f \in 1..NumFin |-> FreeFin]
  /\ direct = [d \in 1..NumDirect |-> IdleDirect]
  /\ reqs \in [1..NumCalls -> {NewCall(GAS_RETRIES), NewCall(DIRECT_RETRIES)}]
  /\ lock = 0

\* fetch resolves: clearTimeout, then the status is looked at.
GasAnswer(c, ok) ==
  /\ reqs[c].pc = "fetch"
  /\ reqs' = [reqs EXCEPT ![c] =
                IF ok THEN [@ EXCEPT !.pc = "body", !.timer = FALSE]
                ELSE AttemptFailed(@)]
  /\ UNCHANGED <<rows, drive, now, tasks, tick, triggers, fin, direct, lock, rows0>>

\* The 10 s timer fires while the fetch is pending (controller.abort), or the
\* fetch rejects with a network error.
GasAbort(c) ==
  /\ reqs[c].pc = "fetch" /\ reqs[c].timer
  /\ reqs' = [reqs EXCEPT ![c] = AttemptFailed(@)]
  /\ UNCHANGED <<rows, drive, now, tasks, tick, triggers, fin, direct, lock, rows0>>

\* res.json() ends: the parsed body is returned, or it throws and the
\* attempt has failed.
GasBody(c, parsed) ==
  /\ reqs[c].pc = "body"
  /\ reqs' = [reqs EXCEPT ![c] =
                IF parsed THEN [@ EXCEPT !.pc = "returned"]
                ELSE AttemptFailed(@)]
  /\ UNCHANGED <<rows, drive, now, tasks, tick, triggers, fin, direct, lock, rows0>>

\* The pause is over: the next iteration sends the request again.
GasNext(c) ==
  /\ reqs[c].pc = "wait"
  /\ reqs' = [reqs EXCEPT ![c] =
                [@ EXCEPT !.i = @ + 1, !.pc = "fetch", !.timer = TRUE,
                          !.attempts = @ + 1]]
  /\ UNCHANGED <<rows, drive, now, tasks, tick, triggers, fin, direct, lock, rows0>>

\* The steps the function's own timers bring about.
GasTimers ==
  \/ \E c \in 1..NumCalls : GasAbort(c)
  \/ \E c \in 1..NumCalls : GasNext(c)

NextRetry ==
  \/ \E c \in 1..NumCalls, ok \in BOOLEAN : GasAnswer(c, ok)
  \/ \E c \in 1..NumCalls, parsed \in BOOLEAN : GasBody(c, parsed)
  \/ GasTimers

\* Without fairness: the counts of attempts.
SpecRetry == InitRetry /\ [][NextRetry]_vars

\* With the timers of the function firing: a pending fetch is aborted and a
\* pause ends.  The ledger owes nothing, so no condition on its answers.
SpecRetryLive == SpecRetry /\ WF_vars(GasTimers)

\* -------------------------------------------------- sync specification
\* One sheet over time: the clock of the script moves, rows are uploaded,
\* queued, updated, finalized and deleted, and one client reads the gallery
\* again and again, each time with the cursor of its last answer.  rows0 is
\* the sheet as it was at the client's last read.

\* The client: the cursor in hand, the ids its last read returned, the `since`
\* that read was sent with.
NewClient == [cursor |-> 0, items |-> {}, since |-> 0]

InitSync ==
  /\ rows = <<>>
  /\ drive = <<>>
  /\ rows0 = <<>>
  /\ now = 1
  /\ tasks = <<>>
  /\ tick = [t \in 1..NumTicks |-> IdleTick]
  /\ triggers = {[photoId |-> 1, videoUrl |-> 1]}
  /\ fin = [f \in 1..NumFin |-> FreeFin]
  /\ direct = [d \in 1..NumDirect |-> IdleDirect]
  /\ reqs = <<NewClient>>
  /\ lock = 0

\* new Date() of a later request is later.
Advance ==
  /\ now < MaxNow
  /\ now' = now + 1
  /\ UNCHANGED <<rows, drive, tasks, tick, triggers, fin, direct, reqs, lock, rows0>>

\* An updateVideoStatus request as the tick or the direct start sends it.
PostUpdateVideoStatus(data) ==
  /\ data.photoId \in PhotoIds
  /\ rows' = UpdateVideoStatus(rows, data, now).rows
  /\ UNCHANGED <<drive, now, tasks, tick, triggers, fin, direct, reqs, lock, rows0>>

\* doPost action 'deleteAllPhotos' with the right pin.
DeleteAllPhotos ==
  /\ rows # <<>>
  /\ rows' = <<>>
  /\ UNCHANGED <<drive, now, tasks, tick, triggers, fin, direct, reqs, lock, rows0>>

\* fetchGallery(eventId, since) with the cursor in hand: since goes into the
\* query when it is positive; data.nextCursor || 0 is the new cursor.
FetchGallery(c) ==
  /\ LET since == reqs[c].cursor
         data == Gallery(rows, since)
     IN reqs' = [reqs EXCEPT ![c] =
                   [cursor |-> data.nextCursor,
                    items |-> {data.items[i].id : i \in 1..Len(data.items)},
                    since |-> since]]
  /\ rows0' = rows
  /\ UNCHANGED <<rows, drive, now, tasks, tick, triggers, fin, direct, lock>>

NextSync ==
  \/ Len(drive) < MaxDrive /\ Upload(FALSE, MaxRows)
  \/ \E p \in PhotoIds : ClientQueueVideo(p, Statuses)
  \/ \E p \in PhotoIds :
       \/ PostUpdateVideoStatus(StatusUpdate(p, "processing", 1, None, ""))
       \/ PostUpdateVideoStatus(StatusUpdate(p, "uploading", None, 1, "processing"))
       \/ PostUpdateVideoStatus(StatusUpdate(p, "failed", None, None, ""))
  \/ \E m \in triggers : FinDeliver(m, 1, TRUE)
  \/ FinPreCheck(1)
  \/ Len(drive) < MaxDrive /\ FinStore(1, MaxFinals)
  \/ FinFetchFails(1)
  \/ \E c \in BOOLEAN : Len(drive) < MaxDrive /\ FinStoreThrows(1, c, MaxFinals)
  \/ FinMarkDone(1)
  \/ DeleteAllPhotos
  \/ Advance
  \/ FetchGallery(1)

SpecSync == InitSync /\ [][NextSync]_vars

\* ------------------------------------------------ ticker specification
\* The App component's effect on settings.boothMode: each run of the effect
\* body makes one closure (isRunning, timerId, runTick), each cleanup stops
\* the closure of the run before.  reqs holds the browser: the mode in the
\* settings, document.hidden, whether App is mounted, and every closure made
\* so far with the place its runTick is at.

HIDDEN_INTERVAL == 10000
QUIET_INTERVAL == 15000
ACTIVE_INTERVAL == 5000
ERROR_INTERVAL == 20000

\* runTick() called: the two early exits, else fetch('/api/video/tick').
RunTick(eff, hidden) ==
  IF ~eff.isRunning THEN [eff EXCEPT !.pc = "ended", !.timerId = 0]
  ELSE IF hidden THEN [eff EXCEPT !.pc = "timer", !.timerId = HIDDEN_INTERVAL]
  ELSE [eff EXCEPT !.pc = "fetch", !.timerId = 0]

\* The end of runTick: if (isRunning) timerId = setTimeout(runTick, nextInterval).
Schedule(eff, nextInterval) ==
  IF eff.isRunning THEN [eff EXCEPT !.pc = "timer", !.timerId = nextInterval]
  ELSE [eff EXCEPT !.pc = "ended"]

\* The effect body for a mode: nothing unless 'video', else a new closure and
\* its first runTick().
Effect(effects, mode, hidden) ==
  IF mode # "video" THEN effects
  ELSE Append(effects, RunTick([isRunning |-> TRUE, pc |-> "new", timerId |-> 0],
                               hidden))

\* The function the effect returned: isRunning = false, clearTimeout(timerId).
\* It belongs to the last closure made, when the mode of that run was 'video'.
Cleanup(effects, mode) ==
  IF mode # "video" \/ effects = <<>> THEN effects
  ELSE [effects EXCEPT ![Len(effects)] =
          [@ EXCEPT !.isRunning = FALSE,
                    !.pc = IF @ = "timer" THEN "ended" ELSE @,
                    !.timerId = 0]]

InitTicker ==
  /\ rows = <<>>
  /\ drive = <<>>
  /\ rows0 = <<>>
  /\ now = 1
  /\ tasks = <<>>
  /\ tick = [t \in 1..NumTicks |-> IdleTick]
  /\ triggers = {}
  /\ fin = [f \in 1..NumFin |-> FreeFin]
  /\ direct = [d \in 1..NumDirect |-> IdleDirect]
  /\ \E mode \in {"video", "photo"}, hidden \in BOOLEAN :
       reqs = [boothMode |-> mode, hidden |-> hidden, mounted |-> TRUE,
               effects |-> Effect(<<>>, mode, hidden)]
  /\ lock = 0

\* setSettings with another boothMode: cleanup of the last run, then the
\* effect body again.
SetBoothMode(mode) ==
  /\ reqs.mounted
  /\ mode # reqs.boothMode
  /\ mode = "video" => Len(reqs.effects) < NumEffects
  /\ reqs' = [reqs EXCEPT !.boothMode = mode,
                !.effects = Effect(Cleanup(@, reqs.boothMode), mode, reqs.hidden)]
  /\ UNCHANGED <<rows, drive, now, tasks, tick, triggers, fin, direct, lock, rows0>>

\* App goes away: the cleanup alone.
Unmount ==
  /\ reqs.mounted
  /\ reqs' = [reqs EXCEPT !.mounted = FALSE,
                !.effects = Cleanup(@, reqs.boothMode)]
  /\ UNCHANGED <<rows, drive, now, tasks, tick, triggers, fin, direct, lock, rows0>>

\* The tab is hidden or shown.
VisibilityChange ==
  /\ reqs' = [reqs EXCEPT !.hidden = ~@]
  /\ UNCHANGED <<rows, drive, now, tasks, tick, triggers, fin, direct, lock, rows0>>

\* A timer set by runTick fires.
TimerFires(e) ==
  /\ reqs.effects[e].pc = "timer"
  /\ reqs' = [reqs EXCEPT !.effects[e] = RunTick(@, reqs.hidden)]
  /\ UNCHANGED <<rows, drive, now, tasks, tick, triggers, fin, direct, lock, rows0>>

\* await fetch ends: a JSON answer with res.ok goes on to res.json(), any
\* other answer leaves nextInterval as it was, a rejection is caught.
FetchEnds(e, outcome) ==
  /\ reqs.effects[e].pc = "fetch"
  /\ reqs' = [reqs EXCEPT !.effects[e] =
                CASE outcome = "json" -> [@ EXCEPT !.pc = "json"]
                  [] outcome = "other" -> Schedule(@, QUIET_INTERVAL)
                  [] OTHER -> Schedule(@, ERROR_INTERVAL)]
  /\ UNCHANGED <<rows, drive, now, tasks, tick, triggers, fin, direct, lock, rows0>>

\* await res.json() ends: work reported, none reported, or it throws.
JsonEnds(e, outcome) ==
  /\ reqs.effects[e].pc = "json"
  /\ reqs' = [reqs EXCEPT !.effects[e] =
                CASE outcome = "active" -> Schedule(@, ACTIVE_INTERVAL)
                  [] outcome = "quiet" -> Schedule(@, QUIET_INTERVAL)
                  [] OTHER -> Schedule(@, ERROR_INTERVAL)]
  /\ UNCHANGED <<rows, drive, now, tasks, tick, triggers, fin, direct, lock, rows0>>

NextTicker ==
  \/ \E mode \in {"video", "photo"} : SetBoothMode(mode)
  \/ Unmount
  \/ VisibilityChange
  \/ \E e \in 1..Len(reqs.effects) : TimerFires(e)
  \/ \E e \in 1..Len(reqs.effects), o \in {"json", "other", "throws"} : FetchEnds(e, o)
  \/ \E e \in 1..Len(reqs.effects), o \in {"active", "quiet", "throws"} : JsonEnds(e, o)

SpecTicker == InitTicker /\ [][NextTicker]_vars

\* ------------------------------------------------ overlay specification
\* The one OverlayCacheSystem of the client.  reqs holds its three fields,
\* every load (the executor of a pendingPromise) with the await it is at, and
\* every preloadOverlay call made with what it returned.  An image is known
\* by the URL it was fetched from and the load that decoded it.

NoUrl == [kind |-> "", name |-> ""]
NoImage == [url |-> NoUrl, load |-> 0]

\* resolveOverlayUrl: a data: URL as it is, a Drive link with id=NAME or
\* /d/NAME becomes the lh3 address of NAME, anything else as it is.
ResolveOverlayUrl(url) ==
  IF url = NoUrl THEN NoUrl
  ELSE IF url.kind = "data" THEN url
  ELSE IF url.kind \in {"id", "d"} THEN [kind |-> "lh3", name |-> url.name]
  ELSE url

\* clearCache()
ClearCache(r) ==
  [r EXCEPT !.cache = NoImage, !.currentUrl = NoUrl, !.pendingPromise = 0]

\* A promise is settled once its executor has called resolve or reject.
Settled(load) == load.pc \in {"resolved", "rejected"}

\* The calls made so far for url whose promise is not settled.
Unsettled(r, url) ==
  {i \in 1..Len(r.calls) :
     /\ r.calls[i].url = url
     /\ r.calls[i].kind = "await"
     /\ ~Settled(r.loads[r.calls[i].load])}

NewPreload(r, url, kind, image, load, started) ==
  [url |-> url, kind |-> kind, image |-> image, load |-> load,
   started |-> started, overlaps |-> Unsettled(r, url)]

\* 2. Check Pending Request (Deduping)
PendingHit(r, url) == r.currentUrl = url /\ r.pendingPromise # 0

\* preloadOverlay(rawUrl) up to its return: the empty URL clears, a cache hit
\* returns the cache, a pending load of the same URL returns its promise,
\* else currentUrl is set and a new load starts with its fetch.
Preload(r, rawUrl) ==
  LET url == ResolveOverlayUrl(rawUrl)
      k == Len(r.loads) + 1
  IN IF rawUrl = NoUrl
     THEN [ClearCache(r) EXCEPT
             !.calls = Append(@, NewPreload(r, NoUrl, "null", NoImage, 0, FALSE))]
     ELSE IF r.currentUrl = url /\ r.cache # NoImage
     THEN [r EXCEPT
             !.calls = Append(@, NewPreload(r, url, "hit", r.cache, 0, FALSE))]
     ELSE IF PendingHit(r, url)
     THEN [r EXCEPT
             !.calls = Append(@, NewPreload(r, url, "await", NoImage,
                                            r.pendingPromise, FALSE))]
     ELSE [r EXCEPT
             !.currentUrl = url,
             !.pendingPromise = k,
             !.loads = Append(@, [url |-> url, pc |-> "fetch", image |-> NoImage]),
             !.calls = Append(@, NewPreload(r, url, "await", NoImage, k, TRUE))]

\* catch and finally of the executor.
LoadError(r, k) ==
  [r EXCEPT !.currentUrl = NoUrl, !.cache = NoImage, !.pendingPromise = 0,
            !.loads[k].pc = "rejected"]

NewOverlay ==
  [cache |-> NoImage, currentUrl |-> NoUrl, pendingPromise |-> 0,
   loads |-> <<>>, calls |-> <<>>]

RawUrls ==
  {[kind |-> "id", name |-> "a"], [kind |-> "d", name |-> "a"],
   [kind |-> "data", name |-> "b"]}

InitOverlay ==
  /\ rows = <<>>
  /\ drive = <<>>
  /\ rows0 = <<>>
  /\ now = 1
  /\ tasks = <<>>
  /\ tick = [t \in 1..NumTicks |-> IdleTick]
  /\ triggers = {}
  /\ fin = [f \in 1..NumFin |-> FreeFin]
  /\ direct = [d \in 1..NumDirect |-> IdleDirect]
  /\ reqs = NewOverlay
  /\ lock = 0

PreloadOverlay(rawUrl) ==
  /\ Len(reqs.calls) < MaxPreloads
  /\ reqs' = Preload(reqs, rawUrl)
  /\ UNCHANGED <<rows, drive, now, tasks, tick, triggers, fin, direct, lock, rows0>>

\* await fetch(url) ends: a response that is ok, or a rejection or a
\* response that is not ok.
LoadFetch(k, ok) ==
  /\ reqs.loads[k].pc = "fetch"
  /\ reqs' = IF ok THEN [reqs EXCEPT !.loads[k].pc = "blob"]
             ELSE LoadError(reqs, k)
  /\ UNCHANGED <<rows, drive, now, tasks, tick, triggers, fin, direct, lock, rows0>>

\* await response.blob() ends: the old cache is closed and dropped and the
\* decoding starts, or it throws.
LoadBlob(k, ok) ==
  /\ reqs.loads[k].pc = "blob"
  /\ reqs' = IF ok THEN [reqs EXCEPT !.cache = NoImage, !.loads[k].pc = "decode"]
             ELSE LoadError(reqs, k)
  /\ UNCHANGED <<rows, drive, now, tasks, tick, triggers, fin, direct, lock, rows0>>

\* The decoding ends: the image goes into the cache, the promise resolves
\* and finally drops pendingPromise; or it throws.
LoadDecode(k, ok) ==
  /\ reqs.loads[k].pc = "decode"
  /\ reqs' = IF ok
             THEN LET image == [url |-> reqs.loads[k].url, load |-> k]
                  IN [reqs EXCEPT !.cache = image, !.pendingPromise = 0,
                                  !.loads[k].pc = "resolved",
                                  !.loads[k].image = image]
             ELSE LoadError(reqs, k)
  /\ UNCHANGED <<rows, drive, now, tasks, tick, triggers, fin, direct, lock, rows0>>

LoadSteps ==
  \/ \E k \in 1..Len(reqs.loads), ok \in BOOLEAN : LoadFetch(k, ok)
  \/ \E k \in 1..Len(reqs.loads), ok \in BOOLEAN : LoadBlob(k, ok)
  \/ \E k \in 1..Len(reqs.loads), ok \in BOOLEAN : LoadDecode(k, ok)

NextOverlay ==
  \/ \E rawUrl \in RawUrls \cup {NoUrl} : PreloadOverlay(rawUrl)
  \/ LoadSteps

SpecOverlay == InitOverlay /\ [][NextOverlay]_vars

\* The same cache when the overlay of the settings has been changed: the
\* cache is empty or holds the image of the data: overlay loaded before,
\* and every call from now on is for the Drive overlay, written either way.
InitSame ==
  /\ rows = <<>>
  /\ drive = <<>>
  /\ rows0 = <<>>
  /\ now = 1
  /\ tasks = <<>>
  /\ tick = [t \in 1..NumTicks |-> IdleTick]
  /\ triggers = {}
  /\ fin = [f \in 1..NumFin |-> FreeFin]
  /\ direct = [d \in 1..NumDirect |-> IdleDirect]
  /\ \E before \in {NoUrl, [kind |-> "data", name |-> "b"]} :
       reqs = [NewOverlay EXCEPT
                 !.currentUrl = before,
                 !.cache = IF before = NoUrl THEN NoImage
                           ELSE [url |-> before, load |-> 0]]
  /\ lock = 0

NextSame ==
  \/ \E kind \in {"id", "d"} : PreloadOverlay([kind |-> kind, name |-> "a"])
  \/ LoadSteps

SpecSame == InitSame /\ [][NextSame]_vars

\* ================================================================== claims
RowSet == {rows[i] : i \in 1..Len(rows)}

\* C1 (as claimed, checked under SpecTicks): a row queued once and driven only
\* by overlapping ticks gets at most one durable asset, that is at most one
\* finalizer execution stores a file for it and sets done.
C1_OneFinalizationPerRow ==
  \A r \in RowSet : FinalAssets(r.id) <= 1

\* C4 (as claimed): in every reachable state a row has a non-empty
\* videoFileId if and only if its videoStatus is done.
C4_FileIdIffDone ==
  \A r \in RowSet : (r.videoFileId # None) <=> (r.videoStatus = "done")

\* C5 (as claimed): in every reachable state a row's videoTaskId is non-empty
\* only when its videoStatus is processing, uploading or done.
C5_TaskIdOnlyWhenStarted ==
  \A r \in RowSet :
    r.videoTaskId # None => r.videoStatus \in {"processing", "uploading", "done"}

\* C6 (as claimed): every row in processing, uploading or done has a
\* non-empty videoTaskId, rows created done by a direct video upload included.
C6_StartedHasTaskId ==
  \A r \in RowSet :
    r.videoStatus \in {"processing", "uploading", "done"} => r.videoTaskId # None

\* C6 (amended): every row in processing or uploading has a non-empty
\* videoTaskId, and so has every done row except a row that a direct video
\* upload created done (type video, videoFileId = its own id) and that has
\* not been started since.
C6_StartedHasTaskIdUnlessUploadedVideo ==
  \A r \in RowSet :
    /\ r.videoStatus \in {"processing", "uploading"} => r.videoTaskId # None
    /\ r.videoStatus = "done" =>
         \/ r.videoTaskId # None
         \/ r.type = "video" /\ r.videoFileId = r.id

\* C6 witness: a row that went through processing and uploading to done, with
\* the task handle still on it and the finalizer's file recorded.
C6_Witness ==
  \E r \in RowSet :
    /\ r.videoStatus = "done" /\ r.videoTaskId # None
    /\ r.videoFileId # None /\ r.videoFileId # r.id

\* C9 (checked under SpecFin): a finalizeVideoUpload execution whose preCheck finds the row done, or
\* with a videoFileId, ends at once with ok:true 'Already uploaded', and that
\* step creates no file and changes no row.
C9_FinalizeAgainIsNoOp ==
  [][\A f \in 1..NumFin :
       ( /\ fin[f].pc = "precheck"
         /\ fin'[f].pc # "precheck"
         /\ \E r \in RowSet : /\ r.id = fin[f].photoId
                              /\ (r.videoStatus = "done" \/ r.videoFileId # None) )
       => /\ fin'[f].pc = "free"
          /\ fin'[f].resp = Response(TRUE, "", "Already uploaded", "")
          /\ rows' = rows
          /\ drive' = drive]_vars

\* C9 witness: the row was in uploading, one finalizeVideoUpload stored the
\* asset and set done, a second one has ended with 'Already uploaded', and one
\* durable asset exists for the row.
C9_Witness ==
  \E f \in 1..NumFin, r \in RowSet :
    /\ fin[f].pc = "free" /\ fin[f].resp.message = "Already uploaded"
    /\ rows0[1].videoStatus = "uploading" /\ rows0[1].videoFileId = None
    /\ r.videoStatus = "done" /\ FinalAssets(r.id) = 1

\* C10 (as claimed, checked under SpecFin): however the trigger for a row is duplicated, no asset is
\* stored twice: no photo has two durable files made from the same video url.
C10_NoDuplicateAsset ==
  \A i, j \in 1..Len(drive) :
    ( /\ drive[i].kind = "final" /\ drive[j].kind = "final"
      /\ drive[i].photo = drive[j].photo /\ drive[i].url = drive[j].url )
    => i = j

\* C13 (as claimed, checked under SpecTicks): no step takes a row from
\* uploading, done or failed back to processing or queued, nor from done to
\* any other status.
C13_StatusNeverMovesBack ==
  [][\A i \in 1..Len(rows) :
       /\ rows[i].videoStatus \in {"uploading", "done", "failed"}
            => rows'[i].videoStatus \notin {"processing", "queued"}
       /\ rows[i].videoStatus = "done" => rows'[i].videoStatus = "done"]_vars

\* C14: a step that takes a row from failed to queued is a queueVideo call of
\* a client for that row: no tick, finalizer or direct-start request moves in
\* it.
C14_FailedToQueuedOnlyByClient ==
  [][\A i \in 1..Len(rows) :
       (rows[i].videoStatus = "failed" /\ rows'[i].videoStatus = "queued")
       => /\ rows' = QueueVideo(rows, QueueVideoTask(rows[i].id, NoOptions,
                                                        NoOptions), now).rows
          /\ tick' = tick /\ fin' = fin /\ direct' = direct
          /\ triggers' = triggers]_vars

\* C14 witness: a row whose task the provider ended as failed is queued again,
\* with the handle of the failed task still on it.
C14_Witness ==
  \E r \in RowSet :
    /\ r.videoStatus = "queued" /\ r.videoTaskId # None
    /\ tasks[r.videoTaskId].status = "failed"

\* C15 (as claimed, checked under SpecTicks): while a row is queued, in
\* processing or in uploading, at most one provider task for its photo is
\* running.
C15_OneActiveJobPerPhoto ==
  \A r \in RowSet :
    r.videoStatus \in {"queued", "processing", "uploading"}
    => Cardinality({i \in 1..Len(tasks) :
                      tasks[i].photo = r.id /\ tasks[i].status = "processing"}) <= 1

\* C16 (as claimed, checked under SpecFin): a finalizeVideoUpload execution
\* that passed its preCheck and ends with ok:false leaves the row in failed.
C16_FailedFinalizeMarksFailed ==
  [][\A f \in 1..NumFin :
       (fin[f].pc = "store" /\ fin'[f].pc = "free" /\ ~fin'[f].resp.ok)
       => rows'[FindRow(rows', fin[f].photoId)].videoStatus = "failed"]_vars

\* ------------------------------------------------------ SpecCap, SpecLoad
\* C18 (as claimed, checked under SpecCap): the queued rows a tick starts
\* come before, in the order of the sheet, every queued row of its snapshot
\* that it leaves unstarted.
C18_StartsOldestFirst ==
  \A t \in 1..NumTicks :
    tick[t].pc \in {"start", "record"} =>
      \A a \in 1..Len(StartList(tick[t])), b \in 1..Len(tick[t].queuedTasks) :
        b > Len(StartList(tick[t]))
        => FindRow(rows, StartList(tick[t])[a].id)
             < FindRow(rows, tick[t].queuedTasks[b].id)

Max0(n, m) == IF n > m THEN n - m ELSE 0

\* C7 (checked under SpecCap): a tick issues at most max(0, MAX_CONCURRENT - p) start requests, p the
\* number of processing rows of its snapshot.
C7_TickStartsWithinSlots ==
  \A t \in 1..NumTicks :
    /\ tick[t].launched <= Max0(MAX_CONCURRENT, Len(tick[t].processingTasks))
    /\ tick[t].started <= tick[t].launched

\* C7 witness: a tick whose snapshot holds more than MAX_CONCURRENT queued rows
\* and no processing row has issued MAX_CONCURRENT start requests.
C7_Witness ==
  \E t \in 1..NumTicks :
    /\ Len(tick[t].queuedTasks) > MAX_CONCURRENT
    /\ Len(tick[t].processingTasks) = 0
    /\ tick[t].launched = MAX_CONCURRENT

\* C8 (as claimed, checked under SpecLoad): in every reachable state at most MAX_CONCURRENT rows are
\* in processing.
C8_ProcessingWithinCap ==
  Cardinality({i \in 1..Len(rows) : rows[i].videoStatus = "processing"})
    <= MAX_CONCURRENT

\* ---------------------------------------------------------------- SpecCas
LockRequest == StatusUpdate(1, "uploading", None, 1, "processing")

AllLockRequests ==
  /\ \A q \in 1..NumReqs : reqs[q].data = LockRequest
  /\ rows0[1].videoStatus = "processing"

AllAnswered == \A q \in 1..NumReqs : reqs[q].pc = "done"

Winners == {q \in 1..NumReqs : reqs[q].pc = "done" /\ reqs[q].resp.ok}

\* C2 (as claimed): of N concurrent requests processing -> uploading against a
\* row in processing exactly one returns ok:true and every other returns
\* ok:false with error 'Status mismatch'.
C2_OneWinnerOthersMismatch ==
  (AllLockRequests /\ AllAnswered) =>
    /\ Cardinality(Winners) = 1
    /\ \A q \in (1..NumReqs) \ Winners : reqs[q].resp.error = "Status mismatch"

\* C2 (amended): exactly one returns ok:true and every other returns ok:false,
\* with error 'Status mismatch' or, when its wait for the script lock timed
\* out, with the lock-timeout error.
C2_OneWinnerOthersRefused ==
  AllLockRequests =>
    /\ Cardinality(Winners) <= 1
    /\ AllAnswered =>
         /\ Cardinality(Winners) = 1
         /\ \A q \in (1..NumReqs) \ Winners :
              /\ ~reqs[q].resp.ok
              /\ reqs[q].resp.error \in {"Status mismatch", BusyError}

\* C2 witness: all requests answered, one won, another got 'Status mismatch'.
C2_Witness ==
  /\ AllLockRequests /\ AllAnswered
  /\ \E q \in 1..NumReqs : reqs[q].resp.ok
  /\ \E q \in 1..NumReqs : reqs[q].resp.error = "Status mismatch"
  /\ rows[1].videoStatus = "uploading"

Refused(rs, data) ==
  \/ FindRow(rs, data.photoId) = 0
  \/ /\ data.requireStatus # ""
     /\ rs[FindRow(rs, data.photoId)].videoStatus # data.requireStatus

\* C3: an updateVideoStatus whose requireStatus differs from the row's status,
\* or whose photoId is not in the sheet, returns ok:false and leaves every
\* field of every row as it was.
C3_RefusedUpdateChangesNothing ==
  [][\A q \in 1..NumReqs :
       (reqs[q].pc = "locked" /\ reqs'[q].pc = "done" /\ Refused(rows, reqs[q].data))
       => (rows' = rows /\ ~reqs'[q].resp.ok)]_vars

\* C3 witness: one request was refused for its requireStatus, one for an
\* unknown photoId, and the row is as it was at the start.
C3_Witness ==
  /\ \E q \in 1..NumReqs :
       reqs[q].pc = "done" /\ reqs[q].resp.error = "Status mismatch"
  /\ \E q \in 1..NumReqs :
       reqs[q].pc = "done" /\ reqs[q].resp.error = "Photo ID not found"
  /\ rows = rows0

\* ------------------------------------------------------------- SpecFaults
\* C11 (as claimed): a tick in which nothing failed but status requests to the
\* provider, whether by a network error, an unparsable body or an error
\* status, is not aborted: it ends with its normal ok response.
C11_PollFailureDoesNotAbort ==
  \A t \in 1..NumTicks :
    (tick[t].pc = "idle" /\ tick[t].faults = {"poll"})
    => (tick[t].resp.status = 200 /\ tick[t].resp.ok)

\* C12 (as claimed): a tick that has answered with its report and in which a
\* row-local call failed (status request, lock or ledger write, start) has a
\* non-empty report.errors.
C12_ErrorsReported ==
  \A t \in 1..NumTicks :
    (tick[t].pc = "idle" /\ tick[t].resp.status = 200 /\ tick[t].faults # {})
    => tick[t].resp.errors # <<>>

\* C20 (as claimed, checked under SpecFaults where no trigger is consumed):
\* for every row in uploading a finalizeVideoUpload request has been sent,
\* or the tick that asked for the change is still at its lock request, also
\* when an attempt of that request was applied and its answer lost.
C20_UploadingHasFinalizer ==
  \A r \in RowSet :
    r.videoStatus = "uploading" =>
      \/ \E m \in triggers : m.photoId = r.id
      \/ \E t \in 1..NumTicks :
           /\ tick[t].pc = "lock"
           /\ tick[t].processingTasks[tick[t].k].id = r.id

\* --------------------------------------------------------------- SpecWide
\* C17 (as claimed): when a tick reads the gallery, every row of the sheet
\* that is queued is in its queuedTasks and every row that is in processing
\* is in its processingTasks, however many rows the sheet has.
C17_TickSeesEveryActiveRow ==
  [][\A t \in 1..NumTicks :
       (tick[t].pc = "idle" /\ tick'[t] # tick[t])
       => \A i \in 1..Len(rows) :
            /\ rows[i].videoStatus = "queued"
                 => \E k \in 1..Len(tick'[t].queuedTasks) :
                      tick'[t].queuedTasks[k].id = rows[i].id
            /\ rows[i].videoStatus = "processing"
                 => \E k \in 1..Len(tick'[t].processingTasks) :
                      tick'[t].processingTasks[k].id = rows[i].id]_vars

\* C19 (as claimed): with the tick endpoint polled for ever, a provider that
\* ends every task and no failing call, every row that is queued is later
\* done or failed.
C19_QueuedEventuallyEnds ==
  \A p \in WidePhotos :
    (rows[p].videoStatus = "queued") ~> (rows[p].videoStatus \in {"done", "failed"})

\* C21 (checked under SpecStart): every task the provider was asked for has
\* resolution 480p or 720p; a tick that starts a row, and a direct start, ask
\* for 480p when the stored or requested value is not one of the two and for
\* the value itself when it is; startArkVideoTask called with a value that is
\* not one of the two is refused and no task is asked for.
AllowedResolutions == {"480p", "720p"}

Normalised(value) == IF value \in AllowedResolutions THEN value ELSE "480p"

C22_AcceptedStartAnswersOk ==
  [][ \A d \in 1..NumDirect :
        /\ direct[d].pc = "record" /\ direct'[d].pc = "idle" =>
             /\ direct'[d].resp.status = 200 /\ direct'[d].resp.ok
             /\ direct'[d].resp.taskId = direct[d].taskId
             /\ direct[d].taskId \in 1..Len(tasks)
        /\ ( /\ direct[d].pc = "idle" /\ direct'[d].pc = "idle"
             /\ direct'[d] # direct[d]
             /\ ~direct'[d].lib /\ Len(tasks') > Len(tasks) ) =>
             /\ direct'[d].resp.status = 200 /\ direct'[d].resp.ok
             /\ direct'[d].resp.taskId = Len(tasks') ]_vars

\* A direct start has answered 200 after the last attempt of its ledger write
\* failed, and the row it named is not in processing.
C22_Witness ==
  \E d \in 1..NumDirect :
    /\ direct[d].pc = "idle" /\ direct[d].faults = {"record"}
    /\ direct[d].resp.status = 200 /\ direct[d].resp.ok
    /\ direct[d].resp.taskId \in 1..Len(tasks)
    /\ \E i \in 1..Len(rows) :
         /\ rows[i].id = direct[d].body.driveFileId
         /\ rows[i].videoStatus # "processing"

\* C23 (as claimed, checked under SpecHang): a tick invocation that has
\* started always comes to its answer, whichever of its calls stays
\* unanswered.
C23_TickTerminates ==
  \A t \in 1..NumTicks : (tick[t].pc # "idle") ~> (tick[t].pc = "idle")

\* C24 (as claimed, checked under SpecFaults): in the 200 answer of a tick,
\* processed is the number of rows for which the sheet applied this
\* invocation's change to uploading and a finalizeVideoUpload request was
\* sent, started is the number of rows for which the sheet applied its
\* processing write, and activeCount is the length of the two lists of its
\* snapshot.
C24_ReportCounts ==
  [][ \A t \in 1..NumTicks :
        tick[t].pc # "idle" /\ tick'[t].pc = "idle" /\ tick'[t].resp.status = 200 =>
          /\ tick'[t].resp.processed =
               Cardinality({p \in tick'[t].won :
                              \E m \in triggers' : m.photoId = p})
          /\ tick'[t].resp.started = Cardinality(tick'[t].moved)
          /\ tick'[t].resp.activeCount =
               Len(tick[t].processingTasks) + Len(tick[t].queuedTasks) ]_vars

RECURSIVE ApplyCells(_, _, _)
ApplyCells(row, cells, n) ==
  IF n = 0 THEN row
  ELSE [ApplyCells(row, cells, n - 1) EXCEPT ![cells[n][1]] = cells[n][2]]

\* The sheets that whole executions of the requests of S, one after the
\* other in any order, make of rs.
RECURSIVE WholeRuns(_, _)
WholeRuns(S, rs) ==
  {rs} \cup UNION {WholeRuns(S \ {o}, LkCallback(reqs[o], rs).rows) : o \in S}

C27_StartWriteFindsQueued ==
  [][ \A t \in 1..NumTicks :
        tick[t].pc = "record" /\ tick'[t] # tick[t] =>
          LET i == FindRow(rows, StartList(tick[t])[tick[t].k].id) IN
          i # 0 /\ rows[i].videoStatus = "queued" ]_vars

Report(tk) ==
  IF tk.pc = "idle"
  THEN [processed |-> tk.resp.processed, errors |-> tk.resp.errors]
  ELSE [processed |-> tk.processed, errors |-> tk.errors]

\* C29 (checked under SpecTicks): when the sheet refuses the change to
\* uploading of a tick that saw succeeded, that tick sends no
\* finalizeVideoUpload request, leaves processed and the error list as they
\* are, changes nothing in the sheet, and goes on to the next row or to its
\* answer.
C29_LostLockIsSkipped ==
  [][ \A t \in 1..NumTicks :
        ( /\ tick[t].pc = "lock" /\ tick'[t] # tick[t]
          /\ ~UpdateVideoStatus(rows, TickRequest(tick[t]), now).resp.ok ) =>
          /\ triggers' = triggers
          /\ rows' = rows
          /\ Report(tick'[t]).processed = tick[t].processed
          /\ Report(tick'[t]).errors = tick[t].errors
          /\ tick'[t].pc \in {"idle", "start"} \/ tick'[t].k = tick[t].k + 1 ]_vars

\* A tick has answered after its change to uploading was refused: nothing
\* processed, no error, while another tick's request is out.
C29_Witness ==
  \E t \in 1..NumTicks :
    /\ tick[t].pc = "idle" /\ tick[t].warned = 1
    /\ tick[t].resp.status = 200 /\ tick[t].resp.processed = 0
    /\ tick[t].resp.errors = <<>>
    /\ Cardinality(triggers) = 1

\* The words for a failed and for a succeeded task, in the letter cases the
\* provider table holds.
FailedWords == {"failed", "FAILED", "Failed", "error", "ERROR", "Error"}

SucceededWords ==
  {"succeeded", "SUCCEEDED", "Succeeded", "success", "SUCCESS", "Success"}

\* C30 (checked under SpecWords): a poll that reports a failed word in any
\* letter case takes the tick to its write of failed, which sets the row to
\* failed whatever its status is by then, and no finalizeVideoUpload request
\* is sent on the way; a poll that reports a word that is neither failed nor
\* succeeded is followed by no write for the row.
C30_FailedPollMarksFailed ==
  [][ \A t \in 1..NumTicks :
        LET tk == tick[t] IN
        /\ ( /\ tk.pc = "poll" /\ tick'[t] # tk
             /\ tk.processingTasks[tk.k].videoTaskId # None ) =>
             LET word == tasks[tk.processingTasks[tk.k].videoTaskId].status IN
             /\ rows' = rows /\ triggers' = triggers
             /\ word \in FailedWords => tick'[t].pc = "fail"
             /\ word \notin FailedWords \cup SucceededWords =>
                  tick'[t].pc \notin {"lock", "fail"}
        /\ (tk.pc = "fail" /\ tick'[t] # tk) =>
             LET i == FindRow(rows, tk.processingTasks[tk.k].id) IN
             /\ rows'[i].videoStatus = "failed"
             /\ triggers' = triggers
             /\ tick'[t].pc # "lock" ]_vars

\* A tick has set to failed a row whose task the provider reports as FAILED,
\* has sent no finalizeVideoUpload request, and has answered.
C30_Witness ==
  /\ \E i \in 1..Len(rows) :
       /\ rows[i].videoStatus = "failed" /\ rows[i].videoTaskId # None
       /\ tasks[rows[i].videoTaskId].status = "FAILED"
  /\ triggers = {}
  /\ tick[1].pc = "idle" /\ tick[1].resp.status = 200

\* C31 (as claimed, checked under SpecLkRead): in the values any ledger
\* action has read, a row in done has a videoFileId, and a row with a
\* videoFileId that was not on it at first is in done.
C31_DoneAndFileIdTogether ==
  \A q \in 1..NumLk :
    reqs[q].pc \in {"write", "release", "done"} =>
      \A i \in 1..Len(reqs[q].values) :
        LET row == reqs[q].values[i] IN
        /\ row.videoStatus = "done" => row.videoFileId # None
        /\ row.videoFileId # rows0[i].videoFileId => row.videoStatus = "done"

\* C32 (as claimed, checked under SpecRetryLive): a call of fetchGasWithRetry
\* sends at most retries requests; when it has returned, the request that was
\* answered is the last one sent and every one before it failed; when it has
\* thrown, retries requests were sent and all failed; and every call comes to
\* return or throw.
C32_BoundedRetryTerminates ==
  /\ [](\A c \in 1..NumCalls :
         /\ reqs[c].attempts <= reqs[c].retries
         /\ reqs[c].pc = "returned" => reqs[c].failed = reqs[c].attempts - 1
         /\ reqs[c].pc = "thrown" =>
              reqs[c].failed = reqs[c].retries /\ reqs[c].attempts = reqs[c].retries)
  /\ \A c \in 1..NumCalls : <>(reqs[c].pc \in {"returned", "thrown"})

\* C33 (checked under SpecStart): a direct start whose body names a model
\* that does not begin with seedance-, or holds neither a driveFileId nor an
\* imageBase64, is answered with status 400; no task is asked of the provider
\* and the sheet is not written.
C33_BadRequestRejectedFirst ==
  [][ \A d \in 1..NumDirect :
        LET body == direct'[d].body
            badModel == /\ body.model # <<>>
                        /\ \/ Len(body.model) < Len(VIDEO_PREFIX)
                           \/ \E n \in 1..Len(VIDEO_PREFIX) :
                                body.model[n] # VIDEO_PREFIX[n]
            noImage == body.driveFileId = None /\ ~body.imageBase64
        IN ( /\ direct[d].pc = "idle" /\ direct'[d] # direct[d]
             /\ ~direct'[d].lib
             /\ badModel \/ noImage ) =>
             /\ direct'[d].pc = "idle"
             /\ direct'[d].resp.status = 400 /\ ~direct'[d].resp.ok
             /\ tasks' = tasks
             /\ rows' = rows ]_vars

\* A direct start that named the model gpt has been answered with 400 while
\* the sheet holds a row and the provider holds no task.
C33_Witness ==
  \E d \in 1..NumDirect :
    /\ direct[d].pc = "idle" /\ ~direct[d].lib
    /\ direct[d].body.model = <<"g", "p", "t">>
    /\ direct[d].resp.status = 400
    /\ rows # <<>> /\ tasks = <<>>

\* The ids of the rows a gallery read with cursor c returns.
Returned(rs, c) ==
  LET items == Gallery(rs, c).items IN {items[i].id : i \in 1..Len(items)}

\* C34 (as claimed, checked under SpecSync): a step that changes the
\* videoStatus of a row stamps the row with the time of the request, and a
\* gallery read with any earlier cursor returns the row.
C34_StatusChangeIsStamped ==
  [][ \A i \in 1..Len(rows) :
        ( /\ i <= Len(rows') /\ rows'[i].id = rows[i].id
          /\ rows'[i].videoStatus # rows[i].videoStatus ) =>
          /\ rows'[i].updatedAt = now
          /\ \A c \in 1..(now - 1) : rows[i].id \in Returned(rows', c) ]_vars

\* C35 (as claimed, checked under SpecSync): a read sent with a cursor c > 0
\* returns the rows stamped after c and no others, its cursor is the largest
\* of c and all the stamps, so no smaller than c, and every row it returns
\* is new or differs from what it was at the previous read.
C35_DeltaReadFollowsCursor ==
  [][ \A c \in 1..Len(reqs) :
        (reqs'[c] # reqs[c] /\ reqs[c].cursor > 0) =>
          /\ reqs'[c].items =
               {rows[i].id : i \in {j \in 1..Len(rows) : RowTs(rows[j]) > reqs[c].cursor}}
          /\ reqs'[c].cursor >= reqs[c].cursor
          /\ \A i \in 1..Len(rows) : reqs'[c].cursor >= RowTs(rows[i])
          /\ \/ reqs'[c].cursor = reqs[c].cursor
             \/ \E i \in 1..Len(rows) : reqs'[c].cursor = RowTs(rows[i])
          /\ \A i \in 1..Len(rows) :
               rows[i].id \in reqs'[c].items =>
                 \A j \in 1..Len(rows0) : rows0[j] # rows[i] ]_vars
\* A tick request of a closure is in flight from fetch() until the body has
\* been read.
InFlight(eff) == eff.pc \in {"fetch", "json"}

TicksInFlight(r) == Cardinality({e \in 1..Len(r.effects) : InFlight(r.effects[e])})

\* C36 (as claimed, checked under SpecTicker): the client never has two tick
\* requests in flight at once; a step that sends a tick request happens with
\* the document shown; a closure that has been stopped sends no request,
\* whether or not a request of its own was in flight when it was stopped.
C36_OneTickInFlight ==
  /\ [](TicksInFlight(reqs) <= 1)
  /\ [][/\ TicksInFlight(reqs') > TicksInFlight(reqs) => ~reqs.hidden
        /\ \A e \in 1..Len(reqs.effects) :
             ~reqs.effects[e].isRunning /\ ~InFlight(reqs.effects[e])
               => ~InFlight(reqs'.effects[e])]_vars

\* What a preloadOverlay call has resolved with so far: the cache it hit, the
\* image its promise resolved with, else nothing.
Resolved(r, call) ==
  IF call.kind = "hit" THEN call.image
  ELSE IF call.kind = "await" /\ r.loads[call.load].pc = "resolved"
       THEN r.loads[call.load].image
       ELSE NoImage

\* C37 (as claimed, checked under SpecOverlay): a preloadOverlay(url) call
\* that resolved with an image resolved with an image loaded from url, and the
\* image in the cache was loaded from currentUrl.
C37_CachedImageBelongsToUrl ==
  /\ \A i \in 1..Len(reqs.calls) :
       Resolved(reqs, reqs.calls[i]) # NoImage
         => Resolved(reqs, reqs.calls[i]).url = reqs.calls[i].url
  /\ reqs.cache # NoImage => reqs.cache.url = reqs.currentUrl

\* C38 (as claimed, checked under SpecSame): a preloadOverlay call made for a
\* URL while an earlier call for that URL is not settled starts no fetch of
\* its own, and the two resolve to the same image; a failed load leaves no
\* image and no URL in the cache, and a call made in that state starts a
\* fetch.
C38_SameUrlLoadsOnce ==
  /\ [](\A j \in 1..Len(reqs.calls) : \A i \in reqs.calls[j].overlaps :
          /\ ~reqs.calls[j].started
          /\ Resolved(reqs, reqs.calls[i]) # NoImage
               /\ Resolved(reqs, reqs.calls[j]) # NoImage
             => Resolved(reqs, reqs.calls[i]) = Resolved(reqs, reqs.calls[j]))
  /\ [][/\ \A k \in 1..Len(reqs.loads) :
             reqs.loads[k].pc # "rejected" /\ reqs'.loads[k].pc = "rejected"
               => reqs'.cache = NoImage /\ reqs'.currentUrl = NoUrl
        /\ reqs.cache = NoImage /\ reqs.currentUrl = NoUrl
             /\ Len(reqs'.calls) > Len(reqs.calls)
           => reqs'.calls[Len(reqs'.calls)].started]_vars

====
